---- MODULE Spec2Model ----
(***************************************************************************)
(* Model of the happy-go-lucky server: the state-machine value types       *)
(* UserStatus and UserRole, the User entity that embeds them, the users    *)
(* table the User is read from and the controllers write to, the          *)
(* schedules and submissions tables with the calls that write them, the    *)
(* terms, courses and projects tables with the manager calls in flight on  *)
(* them, the user_projects table, initializeDB with the checkAdmin and     *)
(* checkOwnership middlewares, and the handlers that register a user, log  *)
(* in, reset a password and confirm an email with tokens that expire.      *)
(*                                                                         *)
(* JavaScript values are modelled as strings; Undefined and Null are the   *)
(* two distinguished non-string values.  A call either returns or throws:  *)
(* every operation yields an outcome record whose field ok tells which,    *)
(* and whose field err names the error class that was thrown.              *)
(***************************************************************************)
EXTENDS Integers, Sequences, FiniteSets, TLC

VARIABLES
    statusHeap,   \* the UserStatus instances created so far; the index is the reference
    roleHeap,     \* the UserRole instances created so far
    user,         \* the User instance a caller holds: <<>> before it is constructed, else <<u>>
    usersTable,   \* the rows of the users table, by id
    now,          \* Date.now(), in hours since the server started
    issued,       \* the number of tokens crypto.randomBytes has produced
    terms,        \* the rows of the terms table
    courses,      \* the rows of the courses table
    projects,     \* the rows of the projects table
    user_projects, \* the rows of the user_projects table
    sqlite_sequence, \* the largest rowid each AUTOINCREMENT table has ever held
    calls,        \* the manager calls in flight: where each stands and what it holds
    schedules,    \* the rows of the schedules table
    submissions,  \* the rows of the submissions table
    emptyRows,    \* the rowids of rows the factory inserted and no write has filled
    res           \* what the last call was, and what it returned or threw

userVars == <<statusHeap, roleHeap, user, usersTable>>
courseVars == <<terms, courses, projects, user_projects, sqlite_sequence, calls>>
scheduleVars == <<courseVars, schedules, submissions, emptyRows>>
authVars == <<now, issued>>
vars == <<userVars, authVars, scheduleVars, res>>

----------------------------------------------------------------------------
(* Bounds *)

MaxObjs == 3      \* value-object instances alive at once

----------------------------------------------------------------------------
(* JavaScript values *)

Undefined == "<undefined>"
Null == "<null>"
NoRef == 0
NoErr == "<none>"

\* Property names every object literal inherits from Object.prototype; the
\* `in` operator finds them on any enum object ("constructor", "valueOf",
\* ... behave the same as the one kept here).
ObjectPrototypeKeys == {"toString"}

\* includes(arr, v): Array.prototype.includes
includes(arr, v) == \E i \in 1..Len(arr) : arr[i] = v

----------------------------------------------------------------------------
(* UserStatus *)

UserStatusEnum == {"confirmed", "unconfirmed", "suspended", "removed"}

\* `v in UserStatusEnum`: own keys of the enum object (a string enum has no
\* reverse mapping, and here every key equals its value) or inherited keys.
InUserStatusEnum(v) == v \in UserStatusEnum \cup ObjectPrototypeKeys

\* Mutant: the table without the edge suspended -> removed
UserStatus_validTransitions_NoRemove ==
    [s \in UserStatusEnum |->
        CASE s = "confirmed"   -> <<"suspended">>
          [] s = "unconfirmed" -> <<"confirmed", "suspended", "removed">>
          [] s = "suspended"   -> <<"confirmed">>
          [] s = "removed"     -> <<>>]

\* Mutant: the table with an extra edge confirmed -> removed
UserStatus_validTransitions_ConfirmedRemoved ==
    [s \in UserStatusEnum |->
        CASE s = "confirmed"   -> <<"suspended", "removed">>
          [] s = "unconfirmed" -> <<"confirmed", "suspended", "removed">>
          [] s = "suspended"   -> <<"confirmed", "removed">>
          [] s = "removed"     -> <<>>]

UserStatus_validTransitions ==
    [s \in UserStatusEnum |->
        CASE s = "confirmed"   -> <<"suspended">>
          [] s = "unconfirmed" -> <<"confirmed", "suspended", "removed">>
          [] s = "suspended"   -> <<"confirmed", "removed">>
          [] s = "removed"     -> <<>>]

\* new UserStatus(initialStatus): the default applies to an omitted argument
UserStatus_constructor(initialStatus) ==
    LET init == IF initialStatus = Undefined THEN "unconfirmed" ELSE initialStatus
    IN  IF ~ InUserStatusEnum(init)
        THEN [ok |-> FALSE, err |-> "Invalid initial status", status |-> Null]
        ELSE [ok |-> TRUE, err |-> NoErr, status |-> init]

\* Mutant: the lookup in the table is skipped and every target is allowed
UserStatus_canTransitionTo_Always(s, newStatus) ==
    [ok |-> TRUE, err |-> NoErr, bool |-> TRUE]

\* this.canTransitionTo(newStatus) on an instance in state s.  For a state
\* that is no key of the table the lookup yields no array (undefined, or an
\* inherited function) and `.includes` is not callable.
UserStatus_canTransitionTo(s, newStatus) ==
    IF s \in DOMAIN UserStatus_validTransitions
    THEN [ok |-> TRUE, err |-> NoErr,
          bool |-> includes(UserStatus_validTransitions[s], newStatus)]
    ELSE [ok |-> FALSE, err |-> "TypeError", bool |-> FALSE]

\* this.transitionTo(newStatus) on an instance in state s: same = TRUE when
\* `this` is returned, otherwise status is the state of the new instance.
UserStatus_transitionTo(s, newStatus) ==
    IF s = newStatus
    THEN [ok |-> TRUE, err |-> NoErr, same |-> TRUE, status |-> s]
    ELSE LET can == UserStatus_canTransitionTo(s, newStatus)
         IN  IF ~ can.ok
             THEN [ok |-> FALSE, err |-> can.err, same |-> FALSE, status |-> Null]
             ELSE IF can.bool
             THEN LET n == UserStatus_constructor(newStatus)
                  IN  [ok |-> n.ok, err |-> n.err, same |-> FALSE, status |-> n.status]
             ELSE [ok |-> FALSE, err |-> "Invalid transition", same |-> FALSE,
                   status |-> Null]

----------------------------------------------------------------------------
(* UserRole *)

UserRoleEnum == {"USER", "ADMIN"}

UserRole_validTransitions ==
    [r \in UserRoleEnum |->
        CASE r = "USER"  -> <<"ADMIN">>
          [] r = "ADMIN" -> <<"USER">>]

\* new UserRole(initialRole).  The guard reads `initialRole in UserRoleEnaum`:
\* UserRoleEnaum is declared nowhere, so evaluating the guard throws a
\* ReferenceError before the membership test or the assignment can run.
UserRole_constructor(initialRole) ==
    [ok |-> FALSE, err |-> "ReferenceError", role |-> Null]

UserRole_canTransitionTo(r, newRole) ==
    IF r \in DOMAIN UserRole_validTransitions
    THEN [ok |-> TRUE, err |-> NoErr,
          bool |-> includes(UserRole_validTransitions[r], newRole)]
    ELSE [ok |-> FALSE, err |-> "TypeError", bool |-> FALSE]

UserRole_transitionTo(r, newRole) ==
    IF r = newRole
    THEN [ok |-> TRUE, err |-> NoErr, same |-> TRUE, role |-> r]
    ELSE LET can == UserRole_canTransitionTo(r, newRole)
         IN  IF ~ can.ok
             THEN [ok |-> FALSE, err |-> can.err, same |-> FALSE, role |-> Null]
             ELSE IF can.bool
             THEN LET n == UserRole_constructor(newRole)
                  IN  [ok |-> n.ok, err |-> n.err, same |-> FALSE, role |-> n.role]
             ELSE [ok |-> FALSE, err |-> "Invalid transition", same |-> FALSE,
                   role |-> Null]

----------------------------------------------------------------------------
(* Calls on the value objects *)

\* The outcome of a call: op and arg name the call, self the instance it was
\* made on and selfState that instance's state when it was made; ret is the
\* instance returned (NoRef when none is), bool a returned boolean.
Result(op, self, selfState, arg, ok, err, ret, bool) ==
    [op |-> op, self |-> self, selfState |-> selfState, arg |-> arg,
     ok |-> ok, err |-> err, ret |-> ret, bool |-> bool, http |-> 0]

\* The outcome of a request handler: the status code of the response it sent
\* (0 when it sent none), and whether it returned or threw.
Response(op, arg, ok, err, http) ==
    [op |-> op, self |-> NoRef, selfState |-> Null, arg |-> arg,
     ok |-> ok, err |-> err, ret |-> NoRef, bool |-> FALSE, http |-> http]

NoResult == Result("init", NoRef, Null, Null, TRUE, NoErr, NoRef, FALSE)

\* What callers pass where a UserStatusEnum is expected: the members, the
\* omitted argument, a string that is no key at all (the tests' "invalid"
\* as UserStatusEnum), and a string that is only an inherited key.
StatusArgs == UserStatusEnum \cup {Undefined, "invalid"} \cup ObjectPrototypeKeys
RoleArgs == UserRoleEnum \cup {Undefined, "invalid"} \cup ObjectPrototypeKeys

\* const s = new UserStatus(initialStatus)
NewUserStatus(initialStatus) ==
    LET n == UserStatus_constructor(initialStatus)
    IN  /\ Len(statusHeap) < MaxObjs
        /\ statusHeap' = IF n.ok THEN Append(statusHeap, n.status) ELSE statusHeap
        /\ res' = Result("new UserStatus", NoRef, Null, initialStatus, n.ok, n.err,
                         IF n.ok THEN Len(statusHeap) + 1 ELSE NoRef, FALSE)
        /\ UNCHANGED <<roleHeap, user, usersTable, authVars, scheduleVars>>

\* statusHeap[self].canTransitionTo(newStatus)
StatusCanTransitionTo(self, newStatus) ==
    LET c == UserStatus_canTransitionTo(statusHeap[self], newStatus)
    IN  /\ res' = Result("UserStatus.canTransitionTo", self, statusHeap[self],
                         newStatus, c.ok, c.err, NoRef, c.bool)
        /\ UNCHANGED <<statusHeap, roleHeap, user, usersTable, authVars, scheduleVars>>

\* statusHeap[self].transitionTo(newStatus)
StatusTransitionTo(self, newStatus) ==
    LET t == UserStatus_transitionTo(statusHeap[self], newStatus)
        fresh == t.ok /\ ~ t.same
    IN  /\ fresh => Len(statusHeap) < MaxObjs
        /\ statusHeap' = IF fresh THEN Append(statusHeap, t.status) ELSE statusHeap
        /\ res' = Result("UserStatus.transitionTo", self, statusHeap[self], newStatus,
                         t.ok, t.err,
                         IF ~ t.ok THEN NoRef
                         ELSE IF t.same THEN self ELSE Len(statusHeap) + 1,
                         FALSE)
        /\ UNCHANGED <<roleHeap, user, usersTable, authVars, scheduleVars>>

\* const r = new UserRole(initialRole)
NewUserRole(initialRole) ==
    LET n == UserRole_constructor(initialRole)
    IN  /\ Len(roleHeap) < MaxObjs
        /\ roleHeap' = IF n.ok THEN Append(roleHeap, n.role) ELSE roleHeap
        /\ res' = Result("new UserRole", NoRef, Null, initialRole, n.ok, n.err,
                         IF n.ok THEN Len(roleHeap) + 1 ELSE NoRef, FALSE)
        /\ UNCHANGED <<statusHeap, user, usersTable, authVars, scheduleVars>>

\* const r = new UserRole(initialRole); r.canTransitionTo(newRole)
\* An exception of the constructor ends the sequence.
RoleCanTransitionTo(initialRole, newRole) ==
    LET n == UserRole_constructor(initialRole)
        c == UserRole_canTransitionTo(n.role, newRole)
        self == IF n.ok THEN Len(roleHeap) + 1 ELSE NoRef
    IN  /\ Len(roleHeap) < MaxObjs
        /\ roleHeap' = IF n.ok THEN Append(roleHeap, n.role) ELSE roleHeap
        /\ res' = IF ~ n.ok
                  THEN Result("UserRole.canTransitionTo", NoRef, initialRole, newRole,
                              FALSE, n.err, NoRef, FALSE)
                  ELSE Result("UserRole.canTransitionTo", self, n.role, newRole,
                              c.ok, c.err, NoRef, c.bool)
        /\ UNCHANGED <<statusHeap, user, usersTable, authVars, scheduleVars>>

\* const r = new UserRole(initialRole); const n = r.transitionTo(newRole)
RoleTransitionTo(initialRole, newRole) ==
    LET n == UserRole_constructor(initialRole)
        t == UserRole_transitionTo(n.role, newRole)
        self == IF n.ok THEN Len(roleHeap) + 1 ELSE NoRef
        made == IF ~ n.ok THEN <<>>
                ELSE IF t.ok /\ ~ t.same THEN <<n.role, t.role>> ELSE <<n.role>>
    IN  /\ Len(roleHeap) + 2 <= MaxObjs
        /\ roleHeap' = roleHeap \o made
        /\ res' = IF ~ n.ok
                  THEN Result("UserRole.transitionTo", NoRef, initialRole, newRole,
                              FALSE, n.err, NoRef, FALSE)
                  ELSE Result("UserRole.transitionTo", self, n.role, newRole,
                              t.ok, t.err,
                              IF ~ t.ok THEN NoRef
                              ELSE IF t.same THEN self ELSE self + 1,
                              FALSE)
        /\ UNCHANGED <<statusHeap, user, usersTable, authVars, scheduleVars>>

----------------------------------------------------------------------------
(* Email *)

AdminEmail == "sys@admin.org"

\* The strings the Email constructor accepts, among those the model uses
ValidEmailStrings == {AdminEmail, "nobody@example.org"}

\* new Email(s): a value object wrapping s; throws for a string that is no
\* address.  The object is written Email(s), distinct from the string s.
Email_new(s) ==
    IF s \in ValidEmailStrings
    THEN [ok |-> TRUE, err |-> NoErr, email |-> "Email(" \o s \o ")"]
    ELSE [ok |-> FALSE, err |-> "Invalid email", email |-> Null]

\* e.toString(): the wrapped string
Email_toString(e) == CHOOSE s \in ValidEmailStrings : Email_new(s).email = e

----------------------------------------------------------------------------
(* User *)

\* new User(id): the field initialisers, then the constructor body
User_constructor(id) ==
    [id |-> id, name |-> Null, githubUsername |-> Null, email |-> Null,
     status |-> UserStatus_constructor(Undefined).status, role |-> "USER",
     password |-> Null, resetPasswordToken |-> Null, resetPasswordExpire |-> Null,
     confirmEmailToken |-> Null, confirmEmailExpire |-> Null]

\* Mutant: the status is assigned directly, as setRole assigns the role
User_setStatus_Direct(u, status) ==
    [ok |-> TRUE, err |-> NoErr, user |-> [u EXCEPT !.status = status]]

\* u.setStatus(status): the assignment happens only when transitionTo returns
User_setStatus(u, status) ==
    LET t == UserStatus_transitionTo(u.status, status)
    IN  [ok |-> t.ok, err |-> t.err,
         user |-> IF t.ok THEN [u EXCEPT !.status = t.status] ELSE u]

\* u.setRole(role)
User_setRole(u, role) ==
    [ok |-> TRUE, err |-> NoErr, user |-> [u EXCEPT !.role = role]]

\* Mutant: a null e-mail is emitted as the empty string
User_writeTo_EmptyEmail(u) ==
    [id |-> u.id, name |-> u.name, githubUsername |-> u.githubUsername,
     email |-> IF u.email = Null THEN "" ELSE Email_toString(u.email),
     status |-> u.status, userRole |-> u.role, password |-> u.password,
     resetPasswordToken |-> u.resetPasswordToken,
     resetPasswordExpire |-> u.resetPasswordExpire,
     confirmEmailToken |-> u.confirmEmailToken,
     confirmEmailExpire |-> u.confirmEmailExpire]

\* u.writeTo(writer): the fields the writer is handed, by name.  status is
\* handed over as getStatusString(), the e-mail as its string form.
User_writeTo(u) ==
    [id |-> u.id, name |-> u.name, githubUsername |-> u.githubUsername,
     email |-> IF u.email = Null THEN Null ELSE Email_toString(u.email),
     status |-> u.status, userRole |-> u.role, password |-> u.password,
     resetPasswordToken |-> u.resetPasswordToken,
     resetPasswordExpire |-> u.resetPasswordExpire,
     confirmEmailToken |-> u.confirmEmailToken,
     confirmEmailExpire |-> u.confirmEmailExpire]

\* u.readFrom(reader), the reader standing on row.  The fields are assigned in
\* order: when the Email constructor or transitionTo throws, the fields
\* before it have been assigned and the ones from it on have not.
User_readFrom(u, row) ==
    LET upToGithub == [u EXCEPT !.id = row.id, !.name = row.name,
                                !.githubUsername = row.githubUsername]
        e == IF row.email /= Null
             THEN Email_new(row.email)
             ELSE [ok |-> TRUE, err |-> NoErr, email |-> Null]
        upTo == [upToGithub EXCEPT !.email = e.email]
        t == UserStatus_transitionTo(u.status, row.status)
    IN  IF ~ e.ok
        THEN [ok |-> FALSE, err |-> e.err, user |-> upToGithub]
        ELSE IF ~ t.ok
        THEN [ok |-> FALSE, err |-> t.err, user |-> upTo]
        ELSE [ok |-> TRUE, err |-> NoErr,
              user |-> [upTo EXCEPT !.status = t.status,
                                    !.role = row.userRole,
                                    !.password = row.password,
                                    !.resetPasswordToken = row.resetPasswordToken,
                                    !.resetPasswordExpire = row.resetPasswordExpire,
                                    !.confirmEmailToken = row.confirmEmailToken,
                                    !.confirmEmailExpire = row.confirmEmailExpire]]

----------------------------------------------------------------------------
(* The users table *)

\* The row initializeDB leaves for the default admin in an empty database
AdminRow ==
    [id |-> 1, name |-> "admin", githubUsername |-> Null, email |-> AdminEmail,
     status |-> "confirmed", password |-> "hash(helloworld)",
     resetPasswordToken |-> Null, resetPasswordExpire |-> Null,
     confirmEmailToken |-> Null, confirmEmailExpire |-> Null, userRole |-> "ADMIN"]

\* UPDATE users SET <col> = v WHERE email = e
UpdateWhereEmail(table, col, v, e) ==
    [i \in DOMAIN table |->
        IF table[i].email = e THEN [table[i] EXCEPT ![col] = v] ELSE table[i]]

\* Values of the fields of a request body: absent, or a string
BodyEmails == {Undefined, AdminEmail, "nobody@example.org"}
BodyStatuses == UserStatusEnum \cup {Undefined, "invalid"}
BodyRoles == UserRoleEnum \cup {Undefined, "invalid"}

----------------------------------------------------------------------------
(* Calls on a User, and the requests that write status and role *)

\* The ids a caller constructs a User with
NewUserIds == {1, 2}

\* const u = new User(id): the caller's variable now holds the new instance
NewUser(id) ==
    /\ user' = <<User_constructor(id)>>
    /\ res' = Result("new User", NoRef, Null, id, TRUE, NoErr, NoRef, FALSE)
    /\ UNCHANGED <<statusHeap, roleHeap, usersTable, authVars, scheduleVars>>

\* u.setStatus(status)
UserSetStatus(status) ==
    LET r == User_setStatus(user[1], status)
    IN  /\ user /= <<>>
        /\ user' = <<r.user>>
        /\ res' = Result("User.setStatus", NoRef, user[1].status, status,
                         r.ok, r.err, NoRef, FALSE)
        /\ UNCHANGED <<statusHeap, roleHeap, usersTable, authVars, scheduleVars>>

\* u.setRole(role)
UserSetRole(role) ==
    LET r == User_setRole(user[1], role)
    IN  /\ user /= <<>>
        /\ user' = <<r.user>>
        /\ res' = Result("User.setRole", NoRef, user[1].role, role,
                         r.ok, r.err, NoRef, FALSE)
        /\ UNCHANGED <<statusHeap, roleHeap, usersTable, authVars, scheduleVars>>

\* u.readFrom(reader), the reader standing on the row with this id
UserReadFrom(id) ==
    LET r == User_readFrom(user[1], usersTable[id])
    IN  /\ user /= <<>>
        /\ user' = <<r.user>>
        /\ res' = Result("User.readFrom", NoRef, user[1].status,
                         usersTable[id].status, r.ok, r.err, NoRef, FALSE)
        /\ UNCHANGED <<statusHeap, roleHeap, usersTable, authVars, scheduleVars>>

\* POST /user/role with body {email, role}
UpdateUserRole(email, role) ==
    /\ IF email = Undefined \/ role = Undefined
       THEN /\ res' = Response("updateUserRole", role, TRUE, NoErr, 400)
            /\ UNCHANGED usersTable
       ELSE /\ usersTable' = UpdateWhereEmail(usersTable, "userRole", role, email)
            /\ res' = Response("updateUserRole", role, TRUE, NoErr, 200)
    /\ UNCHANGED <<statusHeap, roleHeap, user, authVars, scheduleVars>>

\* POST /user/status with body {userEmail, status}, past checkOwnership.  The
\* notice is mailed before the update and outside the try block: when the
\* mail service rejects, the handler throws and neither updates nor answers.
UpdateUserStatus(userEmail, status, mailOk) ==
    /\ IF userEmail = Undefined \/ status = Undefined
       THEN /\ res' = Response("updateUserStatus", status, TRUE, NoErr, 400)
            /\ UNCHANGED usersTable
       ELSE IF status \in {"suspended", "removed"} /\ ~ mailOk
       THEN /\ res' = Response("updateUserStatus", status, FALSE, "sendEmail", 0)
            /\ UNCHANGED usersTable
       ELSE /\ usersTable' = UpdateWhereEmail(usersTable, "status", status, userEmail)
            /\ res' = Response("updateUserStatus", status, TRUE, NoErr, 200)
    /\ UNCHANGED <<statusHeap, roleHeap, user, authVars, scheduleVars>>

\* POST /user/status/all with body {status}: every confirmed user gets it
UpdateAllConfirmedUsers(status) ==
    LET hit == {i \in DOMAIN usersTable : usersTable[i].status = "confirmed"}
    IN  /\ IF status = Undefined
           THEN /\ res' = Response("updateAllConfirmedUsers", status, TRUE, NoErr, 400)
                /\ UNCHANGED usersTable
           ELSE /\ usersTable' = [i \in DOMAIN usersTable |->
                                    IF i \in hit
                                    THEN [usersTable[i] EXCEPT !.status = status]
                                    ELSE usersTable[i]]
                /\ res' = Response("updateAllConfirmedUsers", status, TRUE, NoErr,
                                   IF hit = {} THEN 404 ELSE 200)
        /\ UNCHANGED <<statusHeap, roleHeap, user, authVars, scheduleVars>>

----------------------------------------------------------------------------
(* Emitting a User and populating a fresh one from what was emitted *)

\* The Users a caller can have built with new User(id), the setters and
\* setStatus: every status, any role string, each nullable field null or not.
LegalUsers ==
    [id : NewUserIds,
     name : {Null, "admin"},
     githubUsername : {Null, "octocat"},
     email : {Null, Email_new(AdminEmail).email},
     status : UserStatusEnum,
     role : RoleArgs \ {Undefined},
     password : {Null, "hash(helloworld)"},
     resetPasswordToken : {Null, "token-r"},
     resetPasswordExpire : {Null, "1767225600000"},
     confirmEmailToken : {Null, "token-c"},
     confirmEmailExpire : {Null, "1767225600000"}]

\* u.writeTo(w); const f = new User(id); f.readFrom(reader over w)
\* The caller's variable then holds f; res.arg keeps u for comparison.
UserRoundTrip(id) ==
    LET w == User_writeTo(user[1])
        r == User_readFrom(User_constructor(id), w)
    IN  /\ user /= <<>>
        /\ user' = <<r.user>>
        /\ res' = Result("User.writeTo;readFrom", NoRef, user[1].status, user[1],
                         r.ok, r.err, NoRef, FALSE)
        /\ UNCHANGED <<statusHeap, roleHeap, usersTable, authVars, scheduleVars>>

----------------------------------------------------------------------------
(* Courses, schedules and submission dates *)

\* The rows a table holds that only carry a rowid: the factory has inserted
\* them and no writeRoot has filled them in yet.
NoEmptyRows == [CourseSchedule |-> {}, SubmissionDate |-> {}, Term |-> {}, CourseProject |-> {}]

\* No row has been inserted into an AUTOINCREMENT table yet.
NoSequence == [users |-> 0, terms |-> 0, courses |-> 0, projects |-> 0]

\* initializeDB creates the tables empty.
InitStore ==
    /\ terms = {}
    /\ courses = {}
    /\ projects = {}
    /\ user_projects = {}
    /\ now = 0
    /\ issued = 0
    /\ sqlite_sequence = [NoSequence EXCEPT !.users = AdminRow.id]
    /\ calls = <<>>
    /\ schedules = {}
    /\ submissions = {}
    /\ emptyRows = NoEmptyRows

\* Dates are day numbers; the columns are INTEGER and compare as integers.
MaxDate == 2
Dates == 1..MaxDate

\* submissions_insert_trigger / submissions_update_trigger: TRUE when the
\* trigger raises ABORT for the row NEW.  A scheduleId that names no schedule
\* row makes both subqueries NULL, and the WHERE clause is then not true.
submissions_trigger_Off(scheds, new) == FALSE

submissions_trigger_Strict(scheds, new) ==
    \E s \in scheds :
        /\ s.id = new.scheduleId
        /\ (new.submissionDate <= s.startDate \/ new.submissionDate >= s.endDate)

submissions_trigger(scheds, new) ==
    \E s \in scheds :
        /\ s.id = new.scheduleId
        /\ (new.submissionDate < s.startDate \/ new.submissionDate > s.endDate)

\* UNIQUE (scheduleId, submissionDate) and the primary key: TRUE when another
\* row than NEW's own already holds NEW's pair, or NEW's id.
submissions_unique_Off(subs, new, isInsert) == FALSE

submissions_unique(subs, new, isInsert) ==
    \/ \E r \in subs : /\ r.id /= new.id
                       /\ r.scheduleId = new.scheduleId
                       /\ r.submissionDate = new.submissionDate
    \/ isInsert /\ \E r \in subs : r.id = new.id

TriggerMessage == "submissionDate must be between startDate and endDate"
UniqueMessage == "SQLITE_CONSTRAINT: UNIQUE constraint failed"

\* INSERT INTO submissions (id, scheduleId, submissionDate) VALUES (...)
InsertSubmission(scheds, subs, new) ==
    IF submissions_trigger(scheds, new)
    THEN [ok |-> FALSE, err |-> TriggerMessage, submissions |-> subs]
    ELSE IF submissions_unique(subs, new, TRUE)
    THEN [ok |-> FALSE, err |-> UniqueMessage, submissions |-> subs]
    ELSE [ok |-> TRUE, err |-> NoErr, submissions |-> subs \cup {new}]

\* UPDATE submissions SET scheduleId = ?, submissionDate = ? WHERE id = ?
UpdateSubmission(scheds, subs, id, scheduleId, date) ==
    LET hit == {r \in subs : r.id = id}
        old == CHOOSE r \in hit : TRUE
        new == [id |-> id, scheduleId |-> scheduleId, submissionDate |-> date]
    IN  IF hit = {} THEN [ok |-> TRUE, err |-> NoErr, submissions |-> subs]
        ELSE IF submissions_trigger(scheds, new)
        THEN [ok |-> FALSE, err |-> TriggerMessage, submissions |-> subs]
        ELSE IF submissions_unique(subs, new, FALSE)
        THEN [ok |-> FALSE, err |-> UniqueMessage, submissions |-> subs]
        ELSE [ok |-> TRUE, err |-> NoErr, submissions |-> (subs \ {old}) \cup {new}]

\* DELETE FROM submissions WHERE scheduleId = ?
DeleteSubmissionsOf(subs, scheduleId) == {r \in subs : r.scheduleId /= scheduleId}

\* The tables whose DDL declares the id INTEGER PRIMARY KEY AUTOINCREMENT;
\* schedules and submissions declare it INTEGER PRIMARY KEY only.
AutoIncrementTables == {"users", "terms", "courses", "projects", "happiness"}

TableOf(kind) ==
    CASE kind = "User" -> "users"
      [] kind = "Term" -> "terms"
      [] kind = "Course" -> "courses"
      [] kind = "CourseProject" -> "projects"
      [] kind = "CourseSchedule" -> "schedules"
      [] kind = "SubmissionDate" -> "submissions"

Largest(ids) == IF ids = {} THEN 0 ELSE CHOOSE m \in ids : \A i \in ids : i <= m

\* The rowid storage gives a row that is inserted without one: with
\* AUTOINCREMENT one more than the largest rowid the table has ever held
\* (seq), without it one more than the largest rowid the table holds now.
RowId(table, rowids, seq) ==
    IF table \in AutoIncrementTables
    THEN (IF seq > Largest(rowids) THEN seq ELSE Largest(rowids)) + 1
    ELSE Largest(rowids) + 1

\* DatabaseSerializableFactory.create(kind): inserts an empty row into the
\* table of the kind and returns an instance that carries the row's id.  The
\* id is the one storage generated; rowids are the ids the table holds.
DatabaseSerializableFactory_create(kind, rowids, seq) == RowId(TableOf(kind), rowids, seq)

\* The rowids a table holds: those of its written and of its empty rows.
RowIds(rows, empty) == {r.id : r \in rows} \cup empty

\* for (const date of dates) { const d = await factory.create("SubmissionDate");
\*                             d.setSubmissionDate(date); objects.push(d) }
\* Every create sees the empty rows of the creates before it.
NewSubmissionDates(rowids, dates) ==
    LET first == DatabaseSerializableFactory_create("SubmissionDate", rowids, 0)
    IN  [i \in 1..Len(dates) |-> [id |-> first + i - 1, submissionDate |-> dates[i]]]

ObjectIds(objects) == {objects[i].id : i \in DOMAIN objects}

\* The empty rows left once writeRoot has written the schedule o.
Filled(empty, o) ==
    [empty EXCEPT !.CourseSchedule = @ \ {o.id},
                  !.SubmissionDate = @ \ ObjectIds(o.submissionDates)]

\* The writer inserts the children of a schedule one row at a time, in the
\* order the schedule holds them; the first rejected row ends the write.
RECURSIVE InsertChildren(_, _, _, _)
InsertChildren(scheds, subs, parentId, children) ==
    IF children = <<>>
    THEN [ok |-> TRUE, err |-> NoErr, submissions |-> subs]
    ELSE LET r == InsertSubmission(scheds, subs,
                      [id |-> Head(children).id, scheduleId |-> parentId,
                       submissionDate |-> Head(children).submissionDate])
         IN  IF r.ok THEN InsertChildren(scheds, r.submissions, parentId, Tail(children))
             ELSE r

\* A writer that inserts the schedule's fields as a new row each time and
\* leaves the row already stored under the id where it is.
DatabaseWriter_writeRoot_AddsRow(scheds, subs, o) ==
    LET row == [id |-> o.id, startDate |-> o.startDate, endDate |-> o.endDate]
        scheds1 == scheds \cup {row}
        ins == InsertChildren({row}, DeleteSubmissionsOf(subs, o.id),
                              o.id, o.submissionDates)
    IN  IF ins.ok
        THEN [ok |-> TRUE, err |-> NoErr,
              schedules |-> scheds1, submissions |-> ins.submissions]
        ELSE [ok |-> FALSE, err |-> "ConstraintViolation",
              schedules |-> scheds, submissions |-> subs]

\* A writer that inserts the in-memory children without removing the
\* stored ones first.
DatabaseWriter_writeRoot_KeepChildren(scheds, subs, o) ==
    LET row == [id |-> o.id, startDate |-> o.startDate, endDate |-> o.endDate]
        scheds1 == {s \in scheds : s.id /= o.id} \cup {row}
        ins == InsertChildren(scheds1, subs, o.id, o.submissionDates)
    IN  IF ins.ok
        THEN [ok |-> TRUE, err |-> NoErr,
              schedules |-> scheds1, submissions |-> ins.submissions]
        ELSE [ok |-> FALSE, err |-> "ConstraintViolation",
              schedules |-> scheds, submissions |-> subs]

\* DatabaseWriter.writeRoot(schedule): the schedule row is inserted when its
\* id has no row and updated in place when it has one; the stored children
\* of the schedule are removed and the in-memory children inserted.  The
\* write is atomic: a rejected row leaves storage as it was before the call.
DatabaseWriter_writeRoot(scheds, subs, o) ==
    LET row == [id |-> o.id, startDate |-> o.startDate, endDate |-> o.endDate]
        scheds1 == {s \in scheds : s.id /= o.id} \cup {row}
        ins == InsertChildren(scheds1, DeleteSubmissionsOf(subs, o.id),
                              o.id, o.submissionDates)
    IN  IF ins.ok
        THEN [ok |-> TRUE, err |-> NoErr,
              schedules |-> scheds1, submissions |-> ins.submissions]
        ELSE [ok |-> FALSE, err |-> "ConstraintViolation",
              schedules |-> scheds, submissions |-> subs]

\* The children of a schedule in the order of their row ids.
RECURSIVE RowOrder(_)
RowOrder(rows) ==
    IF rows = {} THEN <<>>
    ELSE LET m == CHOOSE r \in rows : \A q \in rows : r.id <= q.id
         IN  <<[id |-> m.id, submissionDate |-> m.submissionDate]>> \o RowOrder(rows \ {m})

\* The children of a schedule by ascending submissionDate.
RECURSIVE DateOrder(_)
DateOrder(rows) ==
    IF rows = {} THEN <<>>
    ELSE LET m == CHOOSE r \in rows :
                     \A q \in rows : \/ r.submissionDate < q.submissionDate
                                     \/ r.submissionDate = q.submissionDate /\ r.id <= q.id
         IN  <<[id |-> m.id, submissionDate |-> m.submissionDate]>> \o DateOrder(rows \ {m})

ObjectHandler_getCourseSchedule_RowOrder(scheds, subs, id) ==
    LET hit == {s \in scheds : s.id = id}
        row == CHOOSE s \in hit : TRUE
    IN  IF hit = {} THEN <<>>
        ELSE <<[id |-> id, startDate |-> row.startDate, endDate |-> row.endDate,
                submissionDates |-> RowOrder({r \in subs : r.scheduleId = id})]>>

\* ObjectHandler.getCourseSchedule(id, db): null (here <<>>) when the id has
\* no schedule row, else the schedule with its submission dates ascending.
ObjectHandler_getCourseSchedule(scheds, subs, id) ==
    LET hit == {s \in scheds : s.id = id}
        row == CHOOSE s \in hit : TRUE
    IN  IF hit = {} THEN <<>>
        ELSE <<[id |-> id, startDate |-> row.startDate, endDate |-> row.endDate,
                submissionDates |-> DateOrder({r \in subs : r.scheduleId = id})]>>

\* A saveSchedule that calls schedule.setEndDate(startDate).
CourseManager_saveSchedule_EndIsStart(crs, scheds, subs, empty, courseId, startDate, endDate, dates) ==
    LET found == ObjectHandler_getCourseSchedule(scheds, subs, courseId)
        created == DatabaseSerializableFactory_create("CourseSchedule",
                       RowIds(scheds, empty.CourseSchedule), 0)
        empty1 == IF found = <<>>
                  THEN [empty EXCEPT !.CourseSchedule = @ \cup {created}]
                  ELSE empty
        subs1 == DeleteSubmissionsOf(subs, courseId)
        made == NewSubmissionDates(RowIds(subs1, empty1.SubmissionDate), dates)
        empty2 == [empty1 EXCEPT !.SubmissionDate = @ \cup ObjectIds(made)]
        schedule == [id |-> courseId, startDate |-> startDate, endDate |-> startDate,
                     submissionDates |-> made]
        w == DatabaseWriter_writeRoot(scheds, subs1, schedule)
    IN  IF \A c \in crs : c.id /= courseId
        THEN [ok |-> FALSE, err |-> "IllegalArgumentException", schedules |-> scheds,
              submissions |-> subs, emptyRows |-> empty, schedule |-> <<>>,
              created |-> NoRef]
        ELSE IF w.ok
        THEN [ok |-> TRUE, err |-> NoErr, schedules |-> w.schedules,
              submissions |-> w.submissions, emptyRows |-> Filled(empty2, schedule),
              schedule |-> <<schedule>>,
              created |-> IF found = <<>> THEN created ELSE NoRef]
        ELSE [ok |-> FALSE, err |-> w.err, schedules |-> scheds,
              submissions |-> subs1, emptyRows |-> empty2, schedule |-> <<>>,
              created |-> IF found = <<>> THEN created ELSE NoRef]

\* CourseManager.saveSchedule(courseId, startDate, endDate, submissionDates)
\* over the tables crs, scheds, subs and their empty rows: the tables and the
\* empty rows after the call, the schedule it returned, and the id the
\* factory gave the schedule when the call created one.
CourseManager_saveSchedule(crs, scheds, subs, empty, courseId, startDate, endDate, dates) ==
    LET found == ObjectHandler_getCourseSchedule(scheds, subs, courseId)
        created == DatabaseSerializableFactory_create("CourseSchedule",
                       RowIds(scheds, empty.CourseSchedule), 0)
        empty1 == IF found = <<>>
                  THEN [empty EXCEPT !.CourseSchedule = @ \cup {created}]
                  ELSE empty
        subs1 == DeleteSubmissionsOf(subs, courseId)
        made == NewSubmissionDates(RowIds(subs1, empty1.SubmissionDate), dates)
        empty2 == [empty1 EXCEPT !.SubmissionDate = @ \cup ObjectIds(made)]
        schedule == [id |-> courseId, startDate |-> startDate, endDate |-> endDate,
                     submissionDates |-> made]
        w == DatabaseWriter_writeRoot(scheds, subs1, schedule)
    IN  IF \A c \in crs : c.id /= courseId
        THEN [ok |-> FALSE, err |-> "IllegalArgumentException", schedules |-> scheds,
              submissions |-> subs, emptyRows |-> empty, schedule |-> <<>>,
              created |-> NoRef]
        ELSE IF w.ok
        THEN [ok |-> TRUE, err |-> NoErr, schedules |-> w.schedules,
              submissions |-> w.submissions, emptyRows |-> Filled(empty2, schedule),
              schedule |-> <<schedule>>,
              created |-> IF found = <<>> THEN created ELSE NoRef]
        ELSE [ok |-> FALSE, err |-> w.err, schedules |-> scheds,
              submissions |-> subs1, emptyRows |-> empty2, schedule |-> <<>>,
              created |-> IF found = <<>> THEN created ELSE NoRef]

\* A getSchedule that returns a stored schedule whatever the id.
CourseManager_getSchedule_Any(scheds, subs, courseId) ==
    IF scheds = {} THEN <<>>
    ELSE ObjectHandler_getCourseSchedule(scheds, subs, (CHOOSE r \in scheds : TRUE).id)

\* CourseManager.getSchedule(courseId)
CourseManager_getSchedule(scheds, subs, courseId) ==
    ObjectHandler_getCourseSchedule(scheds, subs, courseId)

----------------------------------------------------------------------------
(* Calls on the schedule store *)

MaxSubs == 2             \* submission dates one call hands over
MaxScheduleId == 1       \* schedule identities the factory hands out
MaxSubmissionId == 3     \* submission identities storage hands out

CourseIds == {1, 2}
Windows == {w \in [startDate : Dates, endDate : Dates] : w.startDate <= w.endDate}
DateLists == UNION {[1..n -> Dates] : n \in 0..MaxSubs}

\* What a call on the store was given: the schedule id, the window and the
\* submission dates in the order the caller held them.
Given(id, w, dates) ==
    [id |-> id, startDate |-> w.startDate, endDate |-> w.endDate, dates |-> dates]

\* const s = await factory.create("CourseSchedule"); s.setStartDate(..);
\* s.setEndDate(..); s.setSubmissionDates([created children]);
\* await writer.writeRoot(s)
WriteNewSchedule(w, dates) ==
    LET s == DatabaseSerializableFactory_create("CourseSchedule",
                 RowIds(schedules, emptyRows.CourseSchedule), 0)
        made == NewSubmissionDates(RowIds(submissions, emptyRows.SubmissionDate), dates)
        o == [id |-> s, startDate |-> w.startDate, endDate |-> w.endDate,
              submissionDates |-> made]
        empty == [emptyRows EXCEPT !.CourseSchedule = @ \cup {s},
                                   !.SubmissionDate = @ \cup ObjectIds(made)]
        r == DatabaseWriter_writeRoot(schedules, submissions, o)
    IN  /\ s <= MaxScheduleId
        /\ \A i \in ObjectIds(made) : i <= MaxSubmissionId
        /\ schedules' = r.schedules
        /\ submissions' = r.submissions
        /\ emptyRows' = IF r.ok THEN Filled(empty, o) ELSE empty
        /\ res' = Result("writeRoot", s, "new", Given(o.id, w, dates),
                         r.ok, r.err, <<o>>, FALSE)
        /\ UNCHANGED <<userVars, authVars, courseVars>>

\* const e = await oh.getCourseSchedule(id, db); e.setStartDate(..);
\* e.setEndDate(..); the first children of e get new dates and the others
\* are dropped from e's submission dates; await writer.writeRoot(e)
RewriteSchedule(id, w, dates) ==
    LET found == ObjectHandler_getCourseSchedule(schedules, submissions, id)
        e == found[1]
        o == [id |-> e.id, startDate |-> w.startDate, endDate |-> w.endDate,
              submissionDates |->
                  [i \in 1..Len(dates) |->
                      [e.submissionDates[i] EXCEPT !.submissionDate = dates[i]]]]
        r == DatabaseWriter_writeRoot(schedules, submissions, o)
    IN  /\ found /= <<>>
        /\ Len(dates) <= Len(e.submissionDates)
        /\ schedules' = r.schedules
        /\ submissions' = r.submissions
        /\ res' = Result("writeRoot", NoRef, "stored", Given(id, w, dates),
                         r.ok, r.err, <<o>>, FALSE)
        /\ UNCHANGED <<userVars, authVars, courseVars, emptyRows>>

\* await courseManager.saveSchedule(courseId, startDate, endDate, dates)
SaveSchedule(courseId, w, dates) ==
    LET r == CourseManager_saveSchedule(courses, schedules, submissions, emptyRows,
                                        courseId, w.startDate, w.endDate, dates)
    IN  /\ Largest(RowIds(r.schedules, r.emptyRows.CourseSchedule)) <= MaxScheduleId + 1
        /\ Largest(RowIds(r.submissions, r.emptyRows.SubmissionDate)) <= MaxSubmissionId
        /\ schedules' = r.schedules
        /\ submissions' = r.submissions
        /\ emptyRows' = r.emptyRows
        /\ res' = Result("saveSchedule", r.created, Null, Given(courseId, w, dates),
                         r.ok, r.err, r.schedule, FALSE)
        /\ UNCHANGED <<userVars, authVars, courseVars>>

\* await courseManager.getSchedule(courseId)
GetSchedule(courseId) ==
    /\ res' = Result("getSchedule", NoRef, Null, courseId, TRUE, NoErr,
                     CourseManager_getSchedule(schedules, submissions, courseId), FALSE)
    /\ UNCHANGED <<userVars, authVars, scheduleVars>>

\* db.run("INSERT INTO submissions (scheduleId, submissionDate) VALUES (?, ?)")
DirectInsertSubmission(scheduleId, date) ==
    LET new == [id |-> RowId("submissions",
                                 RowIds(submissions, emptyRows.SubmissionDate), 0),
                scheduleId |-> scheduleId, submissionDate |-> date]
        r == InsertSubmission(schedules, submissions, new)
    IN  /\ new.id <= MaxSubmissionId
        /\ submissions' = r.submissions
        /\ res' = Result("INSERT submissions", NoRef, Null, new, r.ok, r.err, <<>>, FALSE)
        /\ UNCHANGED <<userVars, authVars, courseVars, schedules, emptyRows>>

\* db.run("UPDATE submissions SET scheduleId = ?, submissionDate = ? WHERE id = ?")
DirectUpdateSubmission(id, scheduleId, date) ==
    LET r == UpdateSubmission(schedules, submissions, id, scheduleId, date)
    IN  /\ \E q \in submissions : q.id = id
        /\ submissions' = r.submissions
        /\ res' = Result("UPDATE submissions", NoRef, Null,
                         [id |-> id, scheduleId |-> scheduleId, submissionDate |-> date],
                         r.ok, r.err, <<>>, FALSE)
        /\ UNCHANGED <<userVars, authVars, courseVars, schedules, emptyRows>>

----------------------------------------------------------------------------
(* Manager calls in flight.  A call runs from one await to the next in one
   step; between two steps of a call the steps of the other calls may run. *)

MaxCalls == 2
CallIds == 1..MaxCalls

Put(p, c) == [q \in DOMAIN calls \cup {p} |-> IF q = p THEN c ELSE calls[q]]
Drop(p) == [q \in DOMAIN calls \ {p} |-> calls[q]]
At(p, op, pc) == p \in DOMAIN calls /\ calls[p].op = op /\ calls[p].pc = pc
Goto(p, pc) == Put(p, [calls[p] EXCEPT !.pc = pc])
Throw(p, err) == Put(p, [calls[p] EXCEPT !.pc = "done", !.ok = FALSE, !.err = err])

\* A caller starts a call while no call it started before has come back.
Begin(p, c) ==
    /\ p \notin DOMAIN calls
    /\ \A q \in DOMAIN calls : calls[q].pc /= "done"
    /\ calls' = Put(p, c)

\* The caller has taken the result of a call that came back.
Return(p) ==
    /\ p \in DOMAIN calls
    /\ calls[p].pc = "done"
    /\ calls' = Drop(p)
    /\ UNCHANGED <<userVars, authVars, user_projects, terms, courses, projects, sqlite_sequence,
                   schedules, submissions, emptyRows, res>>

\* courseManager.saveSchedule(courseId, startDate, endDate, dates) is called
BeginSaveSchedule(p, courseId, w, dates) ==
    /\ Begin(p, [op |-> "saveSchedule", pc |-> "readCourse", courseId |-> courseId,
                 startDate |-> w.startDate, endDate |-> w.endDate, dates |-> dates,
                 created |-> NoRef, id |-> NoRef, objects |-> <<>>,
                 ok |-> TRUE, err |-> NoErr])
    /\ UNCHANGED <<userVars, authVars, user_projects, terms, courses, projects, sqlite_sequence,
                   schedules, submissions, emptyRows, res>>

\* const course = await this.readCourse(courseId)
SaveScheduleReadCourse(p) ==
    /\ At(p, "saveSchedule", "readCourse")
    /\ calls' = IF \A c \in courses : c.id /= calls[p].courseId
                THEN Throw(p, "IllegalArgumentException")
                ELSE Goto(p, "getCourseSchedule")
    /\ UNCHANGED <<userVars, authVars, user_projects, terms, courses, projects, sqlite_sequence,
                   schedules, submissions, emptyRows, res>>

\* let schedule = await this.oh.getCourseSchedule(courseId, this.db)
SaveScheduleGetCourseSchedule(p) ==
    LET found == ObjectHandler_getCourseSchedule(schedules, submissions,
                                                 calls[p].courseId)
    IN  /\ At(p, "saveSchedule", "getCourseSchedule")
        /\ calls' = IF found = <<>> THEN Goto(p, "create")
                    ELSE Put(p, [calls[p] EXCEPT !.pc = "delete", !.id = found[1].id])
        /\ UNCHANGED <<userVars, authVars, user_projects, terms, courses, projects, sqlite_sequence,
                       schedules, submissions, emptyRows, res>>

\* schedule = await this.factory.create("CourseSchedule"); schedule.setId(courseId)
SaveScheduleCreate(p) ==
    LET created == DatabaseSerializableFactory_create("CourseSchedule",
                       RowIds(schedules, emptyRows.CourseSchedule), 0)
    IN  /\ At(p, "saveSchedule", "create")
        /\ created <= MaxScheduleId + 1
        /\ emptyRows' = [emptyRows EXCEPT !.CourseSchedule = @ \cup {created}]
        /\ calls' = Put(p, [calls[p] EXCEPT !.pc = "delete", !.created = created,
                                            !.id = calls[p].courseId])
        /\ UNCHANGED <<userVars, authVars, user_projects, terms, courses, projects, sqlite_sequence,
                       schedules, submissions, res>>

\* await this.db.run("DELETE FROM submissions WHERE scheduleId = ?", [courseId])
SaveScheduleDelete(p) ==
    /\ At(p, "saveSchedule", "delete")
    /\ submissions' = DeleteSubmissionsOf(submissions, calls[p].courseId)
    /\ calls' = Goto(p, IF calls[p].dates = <<>> THEN "writeRoot" ELSE "createDate")
    /\ UNCHANGED <<userVars, authVars, user_projects, terms, courses, projects, sqlite_sequence,
                   schedules, emptyRows, res>>

\* const subDate = await this.factory.create("SubmissionDate");
\* subDate.setSubmissionDate(date); submissionDateObjects.push(subDate)
SaveScheduleCreateDate(p) ==
    LET c == calls[p]
        id == DatabaseSerializableFactory_create("SubmissionDate",
                  RowIds(submissions, emptyRows.SubmissionDate), 0)
        objects == Append(c.objects,
                       [id |-> id, submissionDate |-> c.dates[Len(c.objects) + 1]])
    IN  /\ At(p, "saveSchedule", "createDate")
        /\ id <= MaxSubmissionId
        /\ emptyRows' = [emptyRows EXCEPT !.SubmissionDate = @ \cup {id}]
        /\ calls' = Put(p, [c EXCEPT !.objects = objects,
                               !.pc = IF Len(objects) = Len(c.dates)
                                      THEN "writeRoot" ELSE "createDate"])
        /\ UNCHANGED <<userVars, authVars, user_projects, terms, courses, projects, sqlite_sequence,
                       schedules, submissions, res>>

\* schedule.setSubmissionDates(submissionDateObjects);
\* await writer.writeRoot(schedule); return schedule
SaveScheduleWriteRoot(p) ==
    LET c == calls[p]
        schedule == [id |-> c.id, startDate |-> c.startDate, endDate |-> c.endDate,
                     submissionDates |-> c.objects]
        w == DatabaseWriter_writeRoot(schedules, submissions, schedule)
    IN  /\ At(p, "saveSchedule", "writeRoot")
        /\ schedules' = w.schedules
        /\ submissions' = w.submissions
        /\ emptyRows' = IF w.ok THEN Filled(emptyRows, schedule) ELSE emptyRows
        /\ calls' = IF w.ok THEN Goto(p, "done") ELSE Throw(p, w.err)
        /\ UNCHANGED <<userVars, authVars, user_projects, terms, courses, projects, sqlite_sequence, res>>

----------------------------------------------------------------------------
(* Terms, courses and projects *)

MaxRowId == 2            \* rowids the terms, courses and projects tables hand out

TermNames == {"WS2425", "SS25"}
CourseNames == {"ADAP", "AMOS"}
ProjectNames == {"P1", "P2"}
TermIds == 1..MaxRowId
ProjectIds == 1..MaxRowId

\* UNIQUE on a column: another row holds the value the row brings; NULL
\* values never collide.
Unique(rows, col, row) ==
    row[col] /= Null /\ \E r \in rows : r.id /= row.id /\ r[col] = row[col]

\* DatabaseWriter.writeRoot of a term, a course or a project: the row under
\* the entity's id is updated in place, or inserted when the id has none.
DatabaseWriter_writeRow(rows, col, row) ==
    IF Unique(rows, col, row)
    THEN [ok |-> FALSE, err |-> "ConstraintViolation", rows |-> rows]
    ELSE [ok |-> TRUE, err |-> NoErr, rows |-> {r \in rows : r.id /= row.id} \cup {row}]

\* ObjectHandler.getTerm / getCourse / getCourseProject (id, db): null (here
\* <<>>) when the id has no row.
ObjectHandler_get(rows, id) ==
    IF \E r \in rows : r.id = id THEN <<CHOOSE r \in rows : r.id = id>> ELSE <<>>

\* What storage held when a call began.
Stored == [users |-> usersTable, terms |-> terms, courses |-> courses,
           projects |-> projects, user_projects |-> user_projects,
           schedules |-> schedules, submissions |-> submissions]

Finish(p, ret) == Put(p, [calls[p] EXCEPT !.pc = "done", !.ret = ret])

\* A caller calls method op of the TermManager or the CourseManager with the
\* arguments a and b; pc is the first await of the method.
BeginCall(p, op, pc, a, b) ==
    /\ Begin(p, [op |-> op, pc |-> pc, a |-> a, b |-> b, held |-> NoRef, row |-> <<>>,
                 ok |-> TRUE, err |-> NoErr, ret |-> <<>>, before |-> Stored])
    /\ UNCHANGED <<userVars, authVars, user_projects, terms, courses, projects, sqlite_sequence,
                   schedules, submissions, emptyRows, res>>

\* termManager.createTerm(termName)
CreateTerm(p) ==
    LET c == calls[p]
        existing == {t \in terms : t.termName = c.a}
        id == DatabaseSerializableFactory_create("Term", RowIds(terms, emptyRows.Term),
                                                 sqlite_sequence.terms)
        term == [id |-> c.held, termName |-> c.a]
        w == DatabaseWriter_writeRow(terms, "termName", term)
    IN  /\ p \in DOMAIN calls
        /\ c.op = "createTerm"
        /\ \/ /\ c.pc = "select"
              /\ calls' = IF existing /= {}
                          THEN Finish(p, <<CHOOSE t \in existing : TRUE>>)
                          ELSE Goto(p, "create")
              /\ UNCHANGED <<terms, emptyRows, sqlite_sequence>>
           \/ /\ c.pc = "create"
              /\ id <= MaxRowId
              /\ emptyRows' = [emptyRows EXCEPT !.Term = @ \cup {id}]
              /\ sqlite_sequence' = [sqlite_sequence EXCEPT !.terms = id]
              /\ calls' = Put(p, [c EXCEPT !.pc = "writeRoot", !.held = id])
              /\ UNCHANGED terms
           \/ /\ c.pc = "writeRoot"
              /\ terms' = w.rows
              /\ emptyRows' = IF w.ok THEN [emptyRows EXCEPT !.Term = @ \ {c.held}]
                              ELSE emptyRows
              /\ calls' = IF w.ok THEN Finish(p, <<term>>) ELSE Throw(p, w.err)
              /\ UNCHANGED sqlite_sequence
        /\ UNCHANGED <<userVars, authVars, user_projects, courses, projects, schedules, submissions, res>>

\* INSERT INTO courses (courseName, termId) VALUES (?, ?)
InsertCourse(p, courseName, termId) ==
    LET id == RowId("courses", RowIds(courses, {}), sqlite_sequence.courses)
        course == [id |-> id, courseName |-> courseName, termId |-> termId]
    IN  /\ id <= MaxRowId
        /\ IF Unique(courses, "courseName", course)
           THEN /\ calls' = Throw(p, UniqueMessage)
                /\ UNCHANGED <<courses, sqlite_sequence>>
           ELSE /\ courses' = courses \cup {course}
                /\ sqlite_sequence' = [sqlite_sequence EXCEPT !.courses = id]
                /\ calls' = Finish(p, <<course>>)

\* A createCourse that inserts without looking for the name.
CreateCourse_NoSelect(p) ==
    LET c == calls[p]
        existing == {k \in courses : k.courseName = c.a}
    IN  /\ p \in DOMAIN calls
        /\ c.op = "createCourse"
        /\ \/ /\ c.pc = "getTerm"
              /\ calls' = IF ObjectHandler_get(terms, c.b) = <<>>
                          THEN Throw(p, "IllegalArgumentException")
                          ELSE Goto(p, "select")
              /\ UNCHANGED <<courses, sqlite_sequence>>
           \/ /\ c.pc = "select"
              /\ calls' = Goto(p, "insert")
              /\ UNCHANGED <<courses, sqlite_sequence>>
           \/ /\ c.pc = "insert"
              /\ InsertCourse(p, c.a, c.b)
        /\ UNCHANGED <<userVars, authVars, user_projects, terms, projects, schedules, submissions, emptyRows, res>>

\* courseManager.createCourse(courseName, termId)
CreateCourse(p) ==
    LET c == calls[p]
        existing == {k \in courses : k.courseName = c.a}
    IN  /\ p \in DOMAIN calls
        /\ c.op = "createCourse"
        /\ \/ /\ c.pc = "getTerm"
              /\ calls' = IF ObjectHandler_get(terms, c.b) = <<>>
                          THEN Throw(p, "IllegalArgumentException")
                          ELSE Goto(p, "select")
              /\ UNCHANGED <<courses, sqlite_sequence>>
           \/ /\ c.pc = "select"
              /\ calls' = IF existing /= {}
                          THEN Finish(p, <<CHOOSE k \in existing : TRUE>>)
                          ELSE Goto(p, "insert")
              /\ UNCHANGED <<courses, sqlite_sequence>>
           \/ /\ c.pc = "insert"
              /\ InsertCourse(p, c.a, c.b)
        /\ UNCHANGED <<userVars, authVars, user_projects, terms, projects, schedules, submissions, emptyRows, res>>

\* termManager.addCourseToTerm(termId, courseName), with an integer termId
\* and a non-empty courseName
AddCourseToTerm(p) ==
    LET c == calls[p]
    IN  /\ p \in DOMAIN calls
        /\ c.op = "addCourseToTerm"
        /\ \/ /\ c.pc = "readTerm"
              /\ calls' = IF ObjectHandler_get(terms, c.a) = <<>>
                          THEN Throw(p, "IllegalArgumentException")
                          ELSE Goto(p, "insert")
              /\ UNCHANGED <<courses, sqlite_sequence>>
           \/ /\ c.pc = "insert"
              /\ InsertCourse(p, c.b, c.a)
        /\ UNCHANGED <<userVars, authVars, user_projects, terms, projects, schedules, submissions, emptyRows, res>>

\* courseManager.addProjectToCourse(courseId, projectName), with an integer
\* courseId and a non-empty projectName
AddProjectToCourse(p) ==
    LET c == calls[p]
        id == DatabaseSerializableFactory_create("CourseProject",
                  RowIds(projects, emptyRows.CourseProject), sqlite_sequence.projects)
        proj == [id |-> c.held, projectName |-> c.b, courseId |-> c.a]
        w == DatabaseWriter_writeRow(projects, "projectName", proj)
        wc == DatabaseWriter_writeRow(courses, "courseName", c.row[1])
    IN  /\ p \in DOMAIN calls
        /\ c.op = "addProjectToCourse"
        /\ \/ /\ c.pc = "readCourse"
              /\ calls' = IF ObjectHandler_get(courses, c.a) = <<>>
                          THEN Throw(p, "IllegalArgumentException")
                          ELSE Put(p, [c EXCEPT !.pc = "createProject",
                                                !.row = ObjectHandler_get(courses, c.a)])
              /\ UNCHANGED <<courses, projects, emptyRows, sqlite_sequence>>
           \/ /\ c.pc = "createProject"
              /\ id <= MaxRowId
              /\ emptyRows' = [emptyRows EXCEPT !.CourseProject = @ \cup {id}]
              /\ sqlite_sequence' = [sqlite_sequence EXCEPT !.projects = id]
              /\ calls' = Put(p, [c EXCEPT !.pc = "writeRoot", !.held = id])
              /\ UNCHANGED <<courses, projects>>
           \/ /\ c.pc = "writeRoot"
              /\ projects' = w.rows
              /\ emptyRows' = IF w.ok
                              THEN [emptyRows EXCEPT !.CourseProject = @ \ {c.held}]
                              ELSE emptyRows
              /\ calls' = IF w.ok THEN Goto(p, "writeRootCourse") ELSE Throw(p, w.err)
              /\ UNCHANGED <<courses, sqlite_sequence>>
           \/ /\ c.pc = "writeRootCourse"
              /\ courses' = wc.rows
              /\ calls' = IF wc.ok THEN Finish(p, <<proj>>) ELSE Throw(p, wc.err)
              /\ UNCHANGED <<projects, emptyRows, sqlite_sequence>>
        /\ UNCHANGED <<userVars, authVars, user_projects, terms, schedules, submissions, res>>

\* courseManager.updateProject(projectId, projectName, courseId?): a is the
\* projectId, b the projectName and the courseId, <<>> when it is left out
UpdateProject(p) ==
    LET c == calls[p]
        found == ObjectHandler_get(projects, c.a)
        project == [id |-> c.a, projectName |-> c.b.projectName,
                    courseId |-> IF c.b.courseId = <<>> THEN c.row[1].courseId
                                 ELSE c.b.courseId[1]]
        w == DatabaseWriter_writeRow(projects, "projectName", project)
    IN  /\ p \in DOMAIN calls
        /\ c.op = "updateProject"
        /\ \/ /\ c.pc = "getCourseProject"
              /\ calls' = IF found = <<>> THEN Finish(p, <<>>)
                          ELSE Put(p, [c EXCEPT !.row = found,
                                          !.pc = IF c.b.courseId = <<>> THEN "writeRoot"
                                                 ELSE "readCourse"])
              /\ UNCHANGED projects
           \/ /\ c.pc = "readCourse"
              /\ calls' = IF ObjectHandler_get(courses, c.b.courseId[1]) = <<>>
                          THEN Throw(p, "IllegalArgumentException")
                          ELSE Goto(p, "writeRoot")
              /\ UNCHANGED projects
           \/ /\ c.pc = "writeRoot"
              /\ projects' = w.rows
              /\ calls' = IF w.ok THEN Finish(p, <<project>>) ELSE Throw(p, w.err)
        /\ UNCHANGED <<userVars, authVars, user_projects, terms, courses, sqlite_sequence, schedules,
                       submissions, emptyRows, res>>

\* Mutant: the user_projects rows of the project are kept
DeleteProject_KeepMembers(p) ==
    LET c == calls[p]
    IN  /\ p \in DOMAIN calls
        /\ c.op = "deleteProject"
        /\ \/ /\ c.pc = "getCourseProject"
              /\ calls' = IF ObjectHandler_get(projects, c.a) = <<>>
                          THEN Finish(p, <<FALSE>>) ELSE Goto(p, "delete")
              /\ UNCHANGED <<projects, user_projects, emptyRows>>
           \/ /\ c.pc = "delete"
              /\ projects' = {r \in projects : r.id /= c.a}
              /\ user_projects' = user_projects
              /\ emptyRows' = [emptyRows EXCEPT !.CourseProject = @ \ {c.a}]
              /\ calls' = Finish(p, <<TRUE>>)
        /\ UNCHANGED <<userVars, authVars, terms, courses, sqlite_sequence, schedules,
                       submissions, res>>

\* courseManager.deleteProject(projectId).  The two DELETE statements run one
\* after the other; they are one step here.
DeleteProject(p) ==
    LET c == calls[p]
    IN  /\ p \in DOMAIN calls
        /\ c.op = "deleteProject"
        /\ \/ /\ c.pc = "getCourseProject"
              /\ calls' = IF ObjectHandler_get(projects, c.a) = <<>>
                          THEN Finish(p, <<FALSE>>) ELSE Goto(p, "delete")
              /\ UNCHANGED <<projects, user_projects, emptyRows>>
           \/ /\ c.pc = "delete"
              /\ projects' = {r \in projects : r.id /= c.a}
              /\ user_projects' = {r \in user_projects : r.projectId /= c.a}
              /\ emptyRows' = [emptyRows EXCEPT !.CourseProject = @ \ {c.a}]
              /\ calls' = Finish(p, <<TRUE>>)
        /\ UNCHANGED <<userVars, authVars, terms, courses, sqlite_sequence, schedules,
                       submissions, res>>

\* courseManager.deleteCourse(courseId).  The three DELETE statements run one
\* after the other; they are one step here.
DeleteCourse(p) ==
    LET c == calls[p]
    IN  /\ p \in DOMAIN calls
        /\ c.op = "deleteCourse"
        /\ \/ /\ c.pc = "select"
              /\ calls' = IF \A k \in courses : k.id /= c.a
                          THEN Finish(p, <<FALSE>>) ELSE Goto(p, "selectProjects")
              /\ UNCHANGED <<courses, schedules, submissions>>
           \/ /\ c.pc = "selectProjects"
              /\ calls' = IF \E r \in projects : r.courseId = c.a
                          THEN Throw(p, "IllegalArgumentException")
                          ELSE Goto(p, "delete")
              /\ UNCHANGED <<courses, schedules, submissions>>
           \/ /\ c.pc = "delete"
              /\ submissions' = DeleteSubmissionsOf(submissions, c.a)
              /\ schedules' = {r \in schedules : r.id /= c.a}
              /\ courses' = {k \in courses : k.id /= c.a}
              /\ calls' = Finish(p, <<TRUE>>)
        /\ UNCHANGED <<userVars, authVars, user_projects, terms, projects, sqlite_sequence, emptyRows, res>>

\* A deleteTerm that does not look for the courses of the term.
DeleteTerm_NoCheck(p) ==
    LET c == calls[p]
    IN  /\ p \in DOMAIN calls
        /\ c.op = "deleteTerm"
        /\ \/ /\ c.pc = "select"
              /\ calls' = IF c.a \notin RowIds(terms, emptyRows.Term)
                          THEN Finish(p, <<FALSE>>) ELSE Goto(p, "selectCourses")
              /\ UNCHANGED <<terms, emptyRows>>
           \/ /\ c.pc = "selectCourses"
              /\ calls' = Goto(p, "delete")
              /\ UNCHANGED <<terms, emptyRows>>
           \/ /\ c.pc = "delete"
              /\ terms' = {t \in terms : t.id /= c.a}
              /\ emptyRows' = [emptyRows EXCEPT !.Term = @ \ {c.a}]
              /\ calls' = Finish(p, <<TRUE>>)
        /\ UNCHANGED <<userVars, authVars, user_projects, courses, projects, sqlite_sequence, schedules,
                       submissions, res>>

\* termManager.deleteTerm(termId)
DeleteTerm(p) ==
    LET c == calls[p]
    IN  /\ p \in DOMAIN calls
        /\ c.op = "deleteTerm"
        /\ \/ /\ c.pc = "select"
              /\ calls' = IF c.a \notin RowIds(terms, emptyRows.Term)
                          THEN Finish(p, <<FALSE>>) ELSE Goto(p, "selectCourses")
              /\ UNCHANGED <<terms, emptyRows>>
           \/ /\ c.pc = "selectCourses"
              /\ calls' = IF \E k \in courses : k.termId = c.a
                          THEN Throw(p, "IllegalArgumentException")
                          ELSE Goto(p, "delete")
              /\ UNCHANGED <<terms, emptyRows>>
           \/ /\ c.pc = "delete"
              /\ terms' = {t \in terms : t.id /= c.a}
              /\ emptyRows' = [emptyRows EXCEPT !.Term = @ \ {c.a}]
              /\ calls' = Finish(p, <<TRUE>>)
        /\ UNCHANGED <<userVars, authVars, user_projects, courses, projects, sqlite_sequence, schedules,
                       submissions, res>>

\* The calls a caller makes on the two managers, with arguments from the
\* given names and ids
ManagerCallOn(p, termNames, courseNames, projectNames, termIds, courseIds, projectIds) ==
    \/ \E n \in termNames : BeginCall(p, "createTerm", "select", n, Null)
    \/ \E n \in courseNames, t \in termIds : BeginCall(p, "createCourse", "getTerm", n, t)
    \/ \E t \in termIds, n \in courseNames :
          BeginCall(p, "addCourseToTerm", "readTerm", t, n)
    \/ \E k \in courseIds, n \in projectNames :
          BeginCall(p, "addProjectToCourse", "readCourse", k, n)
    \/ \E i \in projectIds, n \in projectNames, k \in {<<>>} \cup {<<j>> : j \in courseIds} :
          BeginCall(p, "updateProject", "getCourseProject", i,
                    [projectName |-> n, courseId |-> k])
    \/ \E i \in projectIds : BeginCall(p, "deleteProject", "getCourseProject", i, Null)
    \/ \E k \in courseIds : BeginCall(p, "deleteCourse", "select", k, Null)
    \/ \E t \in termIds : BeginCall(p, "deleteTerm", "select", t, Null)

ManagerCall(p) ==
    ManagerCallOn(p, TermNames, CourseNames, ProjectNames, TermIds, CourseIds, ProjectIds)

\* A user joins a project: INSERT INTO user_projects (userId, projectId,
\* role, url) for a stored user and a stored project; the primary key
\* (userId, projectId) rejects a second row of the pair.
JoinProject(userId, projectId) ==
    /\ userId \in DOMAIN usersTable
    /\ \E r \in projects : r.id = projectId
    /\ \A r \in user_projects : ~(r.userId = userId /\ r.projectId = projectId)
    /\ user_projects' = user_projects \cup
           {[userId |-> userId, projectId |-> projectId, role |-> "Developer", url |-> Null]}
    /\ UNCHANGED <<userVars, authVars, terms, courses, projects, sqlite_sequence, calls,
                   schedules, submissions, emptyRows, res>>

----------------------------------------------------------------------------
(* initializeDB, registration and the two middlewares *)

MaxUserId == 2           \* rowids the users table hands out

UserNames == {"admin", "eve"}

\* A request's token: <<>> when the Authorization header is missing or
\* empty, <<0>> when jwt.verify rejects it, <<id>> when it verifies and its
\* payload carries the id.
Tokens == {<<>>, <<0>>} \cup {<<i>> : i \in 1..MaxUserId}

\* oh.getUserCount(db)
ObjectHandler_getUserCount(table) == Cardinality(DOMAIN table)

\* oh.getUser(id, db): null (here <<>>) when the id has no row, else a new
\* User that has read the row; what readFrom throws is thrown on.
ObjectHandler_getUser(table, id) ==
    LET r == User_readFrom(User_constructor(id), table[id])
    IN  IF id \notin DOMAIN table THEN [ok |-> TRUE, err |-> NoErr, user |-> <<>>]
        ELSE IF r.ok THEN [ok |-> TRUE, err |-> NoErr, user |-> <<r.user>>]
        ELSE [ok |-> FALSE, err |-> r.err, user |-> <<>>]

\* oh.getUserByMail(email, db)
ObjectHandler_getUserByMail(table, email) ==
    LET hit == {i \in DOMAIN table : table[i].email = email}
    IN  IF hit = {} THEN [ok |-> TRUE, err |-> NoErr, user |-> <<>>]
        ELSE ObjectHandler_getUser(table, CHOOSE i \in hit : TRUE)

\* user.getRoleEnum(): the member of UserRoleEnum the user's role is
User_getRoleEnum(u) == u.role

\* What a middleware did with a request: the status of the one response it
\* sent (0 when it sent none) and whether it called next().
Handled(op, arg, http, next) ==
    [Response(op, arg, TRUE, NoErr, http) EXCEPT !.bool = next]

\* Mutant: the administrator is created without counting the users
InitializeDB_NoCount(createAdmin) ==
    LET userCount == ObjectHandler_getUserCount(usersTable)
        id == DatabaseSerializableFactory_create("User", DOMAIN usersTable,
                                                 sqlite_sequence.users)
        named == [User_constructor(id) EXCEPT
                     !.name = AdminRow.name,
                     !.email = Email_new(AdminRow.email).email,
                     !.password = AdminRow.password]
        admin == User_setRole(User_setStatus(named, "confirmed").user, "ADMIN").user
        create == createAdmin
    IN  /\ create => id <= MaxUserId
        /\ usersTable' = IF create
                         THEN [i \in DOMAIN usersTable \cup {id} |->
                                  IF i = id THEN User_writeTo(admin) ELSE usersTable[i]]
                         ELSE usersTable
        /\ sqlite_sequence' = IF create THEN [sqlite_sequence EXCEPT !.users = id]
                              ELSE sqlite_sequence
        /\ res' = Handled("initializeDB", createAdmin, 0, create)
        /\ UNCHANGED <<authVars, statusHeap, roleHeap, user, terms, courses, projects, user_projects, calls,
                       schedules, submissions, emptyRows>>

\* initializeDB(filename, createAdmin) on the database as it is
InitializeDB(createAdmin) ==
    LET userCount == ObjectHandler_getUserCount(usersTable)
        id == DatabaseSerializableFactory_create("User", DOMAIN usersTable,
                                                 sqlite_sequence.users)
        named == [User_constructor(id) EXCEPT
                     !.name = AdminRow.name,
                     !.email = Email_new(AdminRow.email).email,
                     !.password = AdminRow.password]
        admin == User_setRole(User_setStatus(named, "confirmed").user, "ADMIN").user
        create == userCount = 0 /\ createAdmin
    IN  /\ create => id <= MaxUserId
        /\ usersTable' = IF create
                         THEN [i \in DOMAIN usersTable \cup {id} |->
                                  IF i = id THEN User_writeTo(admin) ELSE usersTable[i]]
                         ELSE usersTable
        /\ sqlite_sequence' = IF create THEN [sqlite_sequence EXCEPT !.users = id]
                              ELSE sqlite_sequence
        /\ res' = Handled("initializeDB", createAdmin, 0, create)
        /\ UNCHANGED <<authVars, statusHeap, roleHeap, user, terms, courses, projects, user_projects, calls,
                       schedules, submissions, emptyRows>>

MaxNow == 2              \* hours the clock runs
MaxTokens == 2           \* tokens crypto.randomBytes produces
TokenLife == 1           \* 3600000 ms: the hour a token is good for

\* crypto.randomBytes(20).toString("hex"): the n-th token, different from
\* every token produced before
Token(n) == "token-" \o ToString(n)

\* Date.now() + 3600000 as the column stores it, and the number a stored
\* expiry stands for
Expire(t) == ToString(t + TokenLife)
Millis(expire) == CHOOSE n \in 0..(MaxNow + TokenLife) : ToString(n) = expire

\* POST /user with a strong password, and with a name of three characters
\* or more and a valid email unless they are missing (Undefined).  The row
\* the factory inserted stays empty when the first writeRoot fails on the
\* UNIQUE email; the error is logged.
Register(name, email) ==
    LET id == DatabaseSerializableFactory_create("User", DOMAIN usersTable,
                                                 sqlite_sequence.users)
        u == [User_constructor(id) EXCEPT
                 !.name = name, !.email = Email_new(email).email,
                 !.password = "hash(helloworld)",
                 !.confirmEmailToken = Token(issued + 1),
                 !.confirmEmailExpire = Expire(now)]
        taken == \E i \in DOMAIN usersTable : usersTable[i].email = email
    IN  /\ IF name = Undefined \/ email = Undefined
           THEN /\ res' = Response("register", email, TRUE, NoErr, 400)
                /\ UNCHANGED <<usersTable, sqlite_sequence, issued>>
           ELSE /\ id <= MaxUserId
                /\ issued < MaxTokens
                /\ issued' = IF taken THEN issued ELSE issued + 1
                /\ sqlite_sequence' = [sqlite_sequence EXCEPT !.users = id]
                /\ usersTable' = IF taken THEN usersTable
                                 ELSE [i \in DOMAIN usersTable \cup {id} |->
                                          IF i = id THEN User_writeTo(u) ELSE usersTable[i]]
                /\ res' = Response("register", email, ~taken,
                                   IF taken THEN "ConstraintViolation" ELSE NoErr,
                                   IF taken THEN 0 ELSE 201)
        /\ UNCHANGED <<now, statusHeap, roleHeap, user, terms, courses, projects,
                       user_projects, calls, schedules, submissions, emptyRows>>

\* The passwords a request carries; Undefined stands for the body without one
BodyPasswords == {Undefined, "helloworld", "Wrong1234"}

\* comparePassword(plain, hashed)
comparePassword(plain, hashed) == hashed = "hash(" \o plain \o ")"

\* Mutant: the status of the user is not looked at
Login_AnyStatus(email, password) ==
    LET arg == [email |-> email, password |-> password]
        e == Email_new(email)
        g == ObjectHandler_getUserByMail(usersTable, email)
        u == g.user[1]
        userStatus == UserStatus_constructor(u.status)
    IN  /\ res' = IF email = Undefined \/ password = Undefined \/ ~e.ok
                  THEN Handled("login", arg, 400, FALSE)
                  ELSE IF ~g.ok THEN Handled("login", arg, 500, FALSE)
                  ELSE IF g.user = <<>> THEN Handled("login", arg, 400, FALSE)
                  ELSE IF u.password = Null \/ ~comparePassword(password, u.password)
                  THEN Handled("login", arg, 400, FALSE)
                  ELSE IF ~userStatus.ok THEN Handled("login", arg, 500, FALSE)
                  ELSE Handled("login", arg, 200, TRUE)
        /\ UNCHANGED <<userVars, authVars, scheduleVars>>

\* POST /session with body {email, password}: the response's status, and
\* whether it carries a token
Login(email, password) ==
    LET arg == [email |-> email, password |-> password]
        e == Email_new(email)
        g == ObjectHandler_getUserByMail(usersTable, email)
        u == g.user[1]
        userStatus == UserStatus_constructor(u.status)
    IN  /\ res' = IF email = Undefined \/ password = Undefined \/ ~e.ok
                  THEN Handled("login", arg, 400, FALSE)
                  ELSE IF ~g.ok THEN Handled("login", arg, 500, FALSE)
                  ELSE IF g.user = <<>> THEN Handled("login", arg, 400, FALSE)
                  ELSE IF u.password = Null \/ ~comparePassword(password, u.password)
                  THEN Handled("login", arg, 400, FALSE)
                  ELSE IF ~userStatus.ok THEN Handled("login", arg, 500, FALSE)
                  ELSE IF userStatus.status \in {"unconfirmed", "suspended", "removed"}
                  THEN Handled("login", arg, 400, FALSE)
                  ELSE Handled("login", arg, 200, TRUE)
        /\ UNCHANGED <<userVars, authVars, scheduleVars>>

\* The tokens and the new passwords a request carries
BodyTokens == {Undefined, "token-0"} \cup {Token(n) : n \in 1..MaxTokens}
NewPasswords == {Undefined, "Newpass123", "weak"}

\* writer.writeRoot(u) of a User that has a row: the row is replaced
WriteUser(table, u) == [i \in DOMAIN table |-> IF i = u.id THEN User_writeTo(u) ELSE table[i]]

\* POST /user/password/forgotMail with body {email}
ForgotPassword(email, mailOk) ==
    LET g == ObjectHandler_getUserByMail(usersTable, email)
        u == [g.user[1] EXCEPT !.resetPasswordToken = Token(issued + 1),
                               !.resetPasswordExpire = Expire(now)]
    IN  /\ IF email = Undefined
           THEN /\ res' = Response("forgotPassword", email, TRUE, NoErr, 400)
                /\ UNCHANGED <<usersTable, issued>>
           ELSE IF ~g.ok
           THEN /\ res' = Response("forgotPassword", email, FALSE, g.err, 500)
                /\ UNCHANGED <<usersTable, issued>>
           ELSE IF g.user = <<>>
           THEN /\ res' = Response("forgotPassword", email, TRUE, NoErr, 404)
                /\ UNCHANGED <<usersTable, issued>>
           ELSE /\ issued < MaxTokens
                /\ issued' = issued + 1
                /\ usersTable' = WriteUser(usersTable, u)
                /\ res' = IF mailOk
                          THEN Response("forgotPassword", email, TRUE, NoErr, 200)
                          ELSE Response("forgotPassword", email, FALSE, "sendEmail", 500)
        /\ UNCHANGED <<now, statusHeap, roleHeap, user, scheduleVars>>

\* Mutant: the expiry of the token is not looked at
ResetPassword_NoExpiry(token, newPassword) ==
    LET arg == [token |-> token, newPassword |-> newPassword]
        hit == {i \in DOMAIN usersTable : usersTable[i].resetPasswordToken = token}
        i == CHOOSE j \in hit : \A k \in hit : j <= k
        r == User_readFrom(User_constructor(i), usersTable[i])
        u == [r.user EXCEPT !.password = "hash(" \o newPassword \o ")",
                            !.resetPasswordExpire = Null,
                            !.resetPasswordToken = Null]
    IN  /\ IF token = Undefined \/ newPassword = Undefined
           THEN res' = Response("resetPassword", arg, TRUE, NoErr, 400) /\ UNCHANGED usersTable
           ELSE IF hit = {}
           THEN res' = Response("resetPassword", arg, TRUE, NoErr, 401) /\ UNCHANGED usersTable
           ELSE IF ~r.ok
           THEN res' = Response("resetPassword", arg, FALSE, r.err, 500) /\ UNCHANGED usersTable
           ELSE IF newPassword = "weak"
           THEN res' = Response("resetPassword", arg, TRUE, NoErr, 400) /\ UNCHANGED usersTable
           ELSE /\ usersTable' = WriteUser(usersTable, u)
                /\ res' = Response("resetPassword", arg, TRUE, NoErr, 200)
        /\ UNCHANGED <<authVars, statusHeap, roleHeap, user, scheduleVars>>

\* POST /user/password/reset with body {token, newPassword}
ResetPassword(token, newPassword) ==
    LET arg == [token |-> token, newPassword |-> newPassword]
        hit == {i \in DOMAIN usersTable : usersTable[i].resetPasswordToken = token}
        i == CHOOSE j \in hit : \A k \in hit : j <= k
        r == User_readFrom(User_constructor(i), usersTable[i])
        u == [r.user EXCEPT !.password = "hash(" \o newPassword \o ")",
                            !.resetPasswordExpire = Null,
                            !.resetPasswordToken = Null]
    IN  /\ IF token = Undefined \/ newPassword = Undefined
           THEN res' = Response("resetPassword", arg, TRUE, NoErr, 400) /\ UNCHANGED usersTable
           ELSE IF hit = {}
           THEN res' = Response("resetPassword", arg, TRUE, NoErr, 401) /\ UNCHANGED usersTable
           ELSE IF ~r.ok
           THEN res' = Response("resetPassword", arg, FALSE, r.err, 500) /\ UNCHANGED usersTable
           ELSE IF r.user.resetPasswordExpire = Null
                   \/ Millis(r.user.resetPasswordExpire) < now
           THEN res' = Response("resetPassword", arg, TRUE, NoErr, 400) /\ UNCHANGED usersTable
           ELSE IF newPassword = "weak"
           THEN res' = Response("resetPassword", arg, TRUE, NoErr, 400) /\ UNCHANGED usersTable
           ELSE /\ usersTable' = WriteUser(usersTable, u)
                /\ res' = Response("resetPassword", arg, TRUE, NoErr, 200)
        /\ UNCHANGED <<authVars, statusHeap, roleHeap, user, scheduleVars>>

\* POST /user/confirmation/email with body {token}.  The UPDATE has been
\* run when u.setStatus throws.
ConfirmEmail(token) ==
    LET hit == {i \in DOMAIN usersTable : usersTable[i].confirmEmailToken = token}
        i == CHOOSE j \in hit : \A k \in hit : j <= k
        row == usersTable[i]
        r == User_readFrom(User_constructor(i), row)
        updated == [j \in DOMAIN usersTable |->
                       IF usersTable[j].email = row.email
                       THEN [usersTable[j] EXCEPT !.status = "confirmed",
                                                  !.confirmEmailToken = Null,
                                                  !.confirmEmailExpire = Null]
                       ELSE usersTable[j]]
        s == User_setStatus(r.user, "confirmed")
        u == [s.user EXCEPT !.confirmEmailToken = Null, !.confirmEmailExpire = Null]
    IN  /\ IF token = Undefined
           THEN res' = Response("confirmEmail", token, TRUE, NoErr, 400) /\ UNCHANGED usersTable
           ELSE IF hit = {}
           THEN res' = Response("confirmEmail", token, TRUE, NoErr, 401) /\ UNCHANGED usersTable
           ELSE IF ~r.ok
           THEN res' = Response("confirmEmail", token, FALSE, r.err, 500) /\ UNCHANGED usersTable
           ELSE IF Millis(row.confirmEmailExpire) < now
           THEN res' = Response("confirmEmail", token, TRUE, NoErr, 400) /\ UNCHANGED usersTable
           ELSE IF ~s.ok
           THEN /\ usersTable' = updated
                /\ res' = Response("confirmEmail", token, FALSE, s.err, 500)
           ELSE /\ usersTable' = WriteUser(updated, u)
                /\ res' = Response("confirmEmail", token, TRUE, NoErr, 200)
        /\ UNCHANGED <<authVars, statusHeap, roleHeap, user, scheduleVars>>

\* An hour passes
Tick ==
    /\ now < MaxNow
    /\ now' = now + 1
    /\ UNCHANGED <<issued, userVars, scheduleVars, res>>

\* checkAdmin(db)(req, res, next)
CheckAdmin(token) ==
    LET g == ObjectHandler_getUser(usersTable, token[1])
    IN  /\ res' = IF token = <<>> THEN Handled("checkAdmin", token, 401, FALSE)
                  ELSE IF token = <<0>> \/ ~g.ok
                  THEN Handled("checkAdmin", token, 401, FALSE)
                  ELSE IF g.user = <<>> THEN Handled("checkAdmin", token, 404, FALSE)
                  ELSE IF User_getRoleEnum(g.user[1]) /= "ADMIN"
                  THEN Handled("checkAdmin", token, 403, FALSE)
                  ELSE Handled("checkAdmin", token, 0, TRUE)
        /\ UNCHANGED <<userVars, authVars, scheduleVars>>

\* checkOwnership(db)(req, res, next), with req.body.userEmail = userEmail
CheckOwnership(token, userEmail) ==
    LET userFromTokenId == ObjectHandler_getUser(usersTable, token[1])
        userFromParamsId == ObjectHandler_getUserByMail(usersTable, userEmail)
        arg == [token |-> token, userEmail |-> userEmail]
    IN  /\ res' = IF token = <<>> THEN Handled("checkOwnership", arg, 401, FALSE)
                  ELSE IF token = <<0>> \/ ~userFromTokenId.ok \/ ~userFromParamsId.ok
                  THEN Handled("checkOwnership", arg, 401, FALSE)
                  ELSE IF userFromTokenId.user = <<>> \/ userFromParamsId.user = <<>>
                  THEN Handled("checkOwnership", arg, 404, FALSE)
                  ELSE IF /\ User_getRoleEnum(userFromTokenId.user[1]) /= "ADMIN"
                          /\ userFromParamsId.user[1].name /= userFromTokenId.user[1].name
                  THEN Handled("checkOwnership", arg, 403, FALSE)
                  ELSE Handled("checkOwnership", arg, 0, TRUE)
        /\ UNCHANGED <<userVars, authVars, scheduleVars>>

----------------------------------------------------------------------------
(* Specifications *)

Init ==
    /\ statusHeap = <<>>
    /\ roleHeap = <<>>
    /\ user = <<>>
    /\ usersTable = [i \in {AdminRow.id} |-> AdminRow]
    /\ InitStore
    /\ res = NoResult

\* The value objects on their own
NextValueTypes ==
    \/ \E a \in StatusArgs : NewUserStatus(a)
    \/ \E self \in DOMAIN statusHeap, a \in StatusArgs : StatusCanTransitionTo(self, a)
    \/ \E self \in DOMAIN statusHeap, a \in StatusArgs : StatusTransitionTo(self, a)
    \/ \E a \in RoleArgs : NewUserRole(a)
    \/ \E a \in RoleArgs, b \in RoleArgs : RoleCanTransitionTo(a, b)
    \/ \E a \in RoleArgs, b \in RoleArgs : RoleTransitionTo(a, b)

SpecValueTypes == Init /\ [][NextValueTypes]_vars

\* Users in memory and the users table
NextUser ==
    \/ \E id \in NewUserIds : NewUser(id)
    \/ \E a \in StatusArgs \ {Undefined} : UserSetStatus(a)
    \/ \E a \in RoleArgs \ {Undefined} : UserSetRole(a)
    \/ \E id \in DOMAIN usersTable : UserReadFrom(id)
    \/ \E e \in BodyEmails, r \in BodyRoles : UpdateUserRole(e, r)
    \/ \E e \in BodyEmails, s \in BodyStatuses, m \in BOOLEAN : UpdateUserStatus(e, s, m)
    \/ \E s \in BodyStatuses : UpdateAllConfirmedUsers(s)

SpecUser == Init /\ [][NextUser]_vars

\* The round trip of a User through writeTo and readFrom
InitRoundTrip ==
    /\ statusHeap = <<>>
    /\ roleHeap = <<>>
    /\ user \in {<<u>> : u \in LegalUsers}
    /\ usersTable = [i \in {AdminRow.id} |-> AdminRow]
    /\ InitStore
    /\ res = NoResult

NextRoundTrip == \E id \in NewUserIds : UserRoundTrip(id)

SpecRoundTrip == InitRoundTrip /\ [][NextRoundTrip]_vars

\* The schedule store, once createCourse has stored the course with id 1
InitSchedule ==
    /\ statusHeap = <<>>
    /\ roleHeap = <<>>
    /\ user = <<>>
    /\ usersTable = [i \in {AdminRow.id} |-> AdminRow]
    /\ terms = {[id |-> 1, termName |-> "WS2425"]}
    /\ courses = {[id |-> 1, courseName |-> "ADAP", termId |-> 1]}
    /\ projects = {}
    /\ user_projects = {}
    /\ now = 0
    /\ issued = 0
    /\ sqlite_sequence = [users |-> 1, terms |-> 1, courses |-> 1, projects |-> 0]
    /\ calls = <<>>
    /\ schedules = {}
    /\ submissions = {}
    /\ emptyRows = NoEmptyRows
    /\ res = NoResult

NextSchedule ==
    \/ \E w \in Windows, ds \in DateLists : WriteNewSchedule(w, ds)
    \/ \E id \in CourseIds, w \in Windows, ds \in DateLists : RewriteSchedule(id, w, ds)
    \/ \E c \in CourseIds, w \in Windows, ds \in DateLists : SaveSchedule(c, w, ds)
    \/ \E c \in CourseIds : GetSchedule(c)
    \/ \E id \in CourseIds, d \in Dates : DirectInsertSubmission(id, d)
    \/ \E id \in 1..MaxSubmissionId, c \in CourseIds, d \in Dates :
          DirectUpdateSubmission(id, c, d)

SpecSchedule == InitSchedule /\ [][NextSchedule]_vars

\* Two saveSchedule calls at a time on two stored courses
InitIdentity ==
    /\ statusHeap = <<>>
    /\ roleHeap = <<>>
    /\ user = <<>>
    /\ usersTable = [i \in {AdminRow.id} |-> AdminRow]
    /\ terms = {[id |-> 1, termName |-> "WS2425"]}
    /\ courses = {[id |-> 1, courseName |-> "ADAP", termId |-> 1],
                  [id |-> 2, courseName |-> "AMOS", termId |-> 1]}
    /\ projects = {}
    /\ user_projects = {}
    /\ now = 0
    /\ issued = 0
    /\ sqlite_sequence = [users |-> 1, terms |-> 1, courses |-> 2, projects |-> 0]
    /\ calls = <<>>
    /\ schedules = {}
    /\ submissions = {}
    /\ emptyRows = NoEmptyRows
    /\ res = NoResult

NextIdentity ==
    \/ \E p \in CallIds, c \in CourseIds, d \in Dates :
          BeginSaveSchedule(p, c, [startDate |-> 1, endDate |-> MaxDate], <<d>>)
    \/ \E p \in CallIds : SaveScheduleReadCourse(p)
    \/ \E p \in CallIds : SaveScheduleGetCourseSchedule(p)
    \/ \E p \in CallIds : SaveScheduleCreate(p)
    \/ \E p \in CallIds : SaveScheduleDelete(p)
    \/ \E p \in CallIds : SaveScheduleCreateDate(p)
    \/ \E p \in CallIds : SaveScheduleWriteRoot(p)
    \/ \E p \in CallIds : Return(p)

SpecIdentity == InitIdentity /\ [][NextIdentity]_vars

\* The term and course managers, one call at a time, on the tables as
\* initializeDB created them
NextCourses ==
    \/ calls = <<>> /\ ManagerCall(1)
    \/ CreateTerm(1)
    \/ CreateCourse(1)
    \/ AddCourseToTerm(1)
    \/ AddProjectToCourse(1)
    \/ UpdateProject(1)
    \/ DeleteProject(1)
    \/ DeleteCourse(1)
    \/ DeleteTerm(1)
    \/ Return(1)
    \/ calls = <<>> /\ SaveSchedule(1, [startDate |-> 1, endDate |-> MaxDate], <<1>>)
    \/ calls = <<>> /\ \E c \in CourseIds : GetSchedule(c)

SpecCourses == Init /\ [][NextCourses]_vars

\* The term and course managers with calls that overlap
NextCoursesAsync ==
    \/ \E p \in CallIds :
          ManagerCallOn(p, {"WS2425"}, {"ADAP"}, {"P1"}, {1}, {1}, {1})
    \/ \E p \in CallIds : CreateTerm(p)
    \/ \E p \in CallIds : CreateCourse(p)
    \/ \E p \in CallIds : AddCourseToTerm(p)
    \/ \E p \in CallIds : AddProjectToCourse(p)
    \/ \E p \in CallIds : UpdateProject(p)
    \/ \E p \in CallIds : DeleteProject(p)
    \/ \E p \in CallIds : DeleteCourse(p)
    \/ \E p \in CallIds : DeleteTerm(p)
    \/ \E p \in CallIds : Return(p)

SpecCoursesAsync == Init /\ [][NextCoursesAsync]_vars

\* A database file that initializeDB has not seen yet, then initializeDB,
\* registrations, the admin's changes of status and role, and requests that
\* pass through the two middlewares
InitAuth ==
    /\ statusHeap = <<>>
    /\ roleHeap = <<>>
    /\ user = <<>>
    /\ usersTable = <<>>
    /\ terms = {}
    /\ courses = {}
    /\ projects = {}
    /\ user_projects = {}
    /\ now = 0
    /\ issued = 0
    /\ sqlite_sequence = NoSequence
    /\ calls = <<>>
    /\ schedules = {}
    /\ submissions = {}
    /\ emptyRows = NoEmptyRows
    /\ res = NoResult

NextAuth ==
    \/ \E createAdmin \in BOOLEAN : InitializeDB(createAdmin)
    \/ \E n \in UserNames \cup {Undefined}, e \in BodyEmails : Register(n, e)
    \/ \E e \in BodyEmails, r \in BodyRoles : UpdateUserRole(e, r)
    \/ \E e \in BodyEmails, s \in BodyStatuses, m \in BOOLEAN : UpdateUserStatus(e, s, m)
    \/ \E t \in Tokens : CheckAdmin(t)
    \/ \E t \in Tokens, e \in BodyEmails : CheckOwnership(t, e)
    \/ \E e \in BodyEmails, w \in BodyPasswords : Login(e, w)

SpecAuth == InitAuth /\ [][NextAuth]_vars

\* Projects and their members: course 1 is stored, the administrator and
\* one registered user are stored; projects are added, joined and deleted,
\* one manager call at a time
InitProjects ==
    /\ statusHeap = <<>>
    /\ roleHeap = <<>>
    /\ user = <<>>
    /\ usersTable = [i \in {1, 2} |->
                        IF i = 1 THEN AdminRow
                        ELSE [AdminRow EXCEPT !.id = 2, !.name = "eve",
                                              !.email = "nobody@example.org",
                                              !.status = "unconfirmed",
                                              !.userRole = "USER"]]
    /\ terms = {[id |-> 1, termName |-> "WS2425"]}
    /\ courses = {[id |-> 1, courseName |-> "ADAP", termId |-> 1]}
    /\ projects = {}
    /\ user_projects = {}
    /\ now = 0
    /\ issued = 0
    /\ sqlite_sequence = [users |-> 2, terms |-> 1, courses |-> 1, projects |-> 0]
    /\ calls = <<>>
    /\ schedules = {}
    /\ submissions = {}
    /\ emptyRows = NoEmptyRows
    /\ res = NoResult

NextProjects ==
    \/ /\ calls = <<>>
       /\ \E k \in {1}, n \in ProjectNames :
             BeginCall(1, "addProjectToCourse", "readCourse", k, n)
    \/ /\ calls = <<>>
       /\ \E i \in ProjectIds : BeginCall(1, "deleteProject", "getCourseProject", i, Null)
    \/ AddProjectToCourse(1)
    \/ DeleteProject(1)
    \/ Return(1)
    \/ calls = <<>> /\ \E u \in 1..MaxUserId, i \in ProjectIds : JoinProject(u, i)

SpecProjects == InitProjects /\ [][NextProjects]_vars

\* Tokens: users register, ask for a password reset, reset the password and
\* confirm their email while the clock runs and the admin sets statuses
InitTokens == InitAuth

NextTokens ==
    \/ \E n \in {"eve"}, e \in ValidEmailStrings : Register(n, e)
    \/ \E e \in BodyEmails, m \in BOOLEAN : ForgotPassword(e, m)
    \/ \E t \in BodyTokens, w \in NewPasswords : ResetPassword(t, w)
    \/ \E t \in BodyTokens : ConfirmEmail(t)
    \/ \E e \in ValidEmailStrings, st \in UserStatusEnum : UpdateUserStatus(e, st, TRUE)
    \/ Tick

SpecTokens == InitTokens /\ [][NextTokens]_vars

\* Everything together.  No action of NextValueTypes reads or writes user or
\* usersTable and no action of NextUser reads or writes the two heaps, so the
\* two specifications above are the two projections of this one.
Next == NextValueTypes \/ NextUser

Spec == Init /\ [][Next]_vars

----------------------------------------------------------------------------
(* The transition tables as the specification states them (section 4.1) *)

StatusTable(s) ==
    CASE s = "unconfirmed" -> {"confirmed", "suspended", "removed"}
      [] s = "confirmed"   -> {"suspended"}
      [] s = "suspended"   -> {"confirmed", "removed"}
      [] s = "removed"     -> {}
      [] OTHER             -> {}

RoleTable(r) ==
    CASE r = "USER"  -> {"ADMIN"}
      [] r = "ADMIN" -> {"USER"}
      [] OTHER       -> {}

----------------------------------------------------------------------------
(* Claims C1 - C10 *)

\* C1: for every UserStatus value in state s and every target t in s's
\* allowed-successor set, s.transitionTo(t) succeeds and returns a value
\* whose state is t, and the original value still reports state s.
C1_TransitionToAllowed ==
    (/\ res.op = "UserStatus.transitionTo"
     /\ res.selfState \in UserStatusEnum
     /\ res.arg \in StatusTable(res.selfState))
    => /\ res.ok
       /\ res.ret \in DOMAIN statusHeap
       /\ res.ret /= res.self
       /\ statusHeap[res.ret] = res.arg
       /\ statusHeap[res.self] = res.selfState

C1_Witness ==
    /\ res.op = "UserStatus.transitionTo"
    /\ res.selfState = "suspended"
    /\ res.arg = "removed"
    /\ res.ok
    /\ statusHeap[res.ret] = "removed"

\* C2: for every UserStatus state s and every target t that differs from s
\* and is not in s's allowed-successor set, s.transitionTo(t) fails with an
\* invalid-transition error and produces no value; removed has no successor.
C2_TransitionToRejected ==
    (/\ res.op = "UserStatus.transitionTo"
     /\ res.selfState \in UserStatusEnum
     /\ res.arg /= res.selfState
     /\ res.arg \notin StatusTable(res.selfState))
    => /\ ~ res.ok
       /\ res.err = "Invalid transition"
       /\ res.ret = NoRef
       /\ statusHeap[res.self] = res.selfState

C2_Witness ==
    /\ res.op = "UserStatus.transitionTo"
    /\ res.selfState = "removed"
    /\ res.arg = "confirmed"
    /\ ~ res.ok
    /\ res.err = "Invalid transition"

\* C3: for UserStatus and for UserRole, transitionTo(t) on a value whose
\* state already is t returns that very same instance, without an error, for
\* every member t of the enumeration.
C3_SameStateSameInstance ==
    /\ (/\ res.op = "UserStatus.transitionTo"
        /\ res.arg \in UserStatusEnum
        /\ res.selfState = res.arg)
       => (res.ok /\ res.ret = res.self /\ res.ret /= NoRef)
    /\ (/\ res.op = "UserRole.transitionTo"
        /\ res.arg \in UserRoleEnum
        /\ res.selfState = res.arg)
       => (res.ok /\ res.ret = res.self /\ res.ret /= NoRef)

\* C4: UserStatus.canTransitionTo(t) on a value in state s returns true
\* exactly for the pairs (s, t) of the transition table, false for every
\* other pair, and leaves the state of the value it is called on unchanged.
C4_CanTransitionToIsTable ==
    (/\ res.op = "UserStatus.canTransitionTo"
     /\ res.selfState \in UserStatusEnum)
    => /\ res.ok
       /\ res.bool <=> (res.arg \in StatusTable(res.selfState))
       /\ statusHeap[res.self] = res.selfState

C4_Witness ==
    /\ res.op = "UserStatus.canTransitionTo"
    /\ res.selfState = "confirmed"
    /\ res.arg = "removed"
    /\ res.ok
    /\ ~ res.bool

\* C5: new UserStatus() yields unconfirmed, new UserStatus(m) for a member m
\* yields m, and new UserStatus(v) for any v outside the enumeration fails
\* with 'Invalid initial status', so that no UserStatus holds a non-member.
C5_ConstructorValidates ==
    /\ res.op = "new UserStatus" =>
         /\ res.arg = Undefined =>
              (res.ok /\ res.ret /= NoRef /\ statusHeap[res.ret] = "unconfirmed")
         /\ res.arg \in UserStatusEnum =>
              (res.ok /\ res.ret /= NoRef /\ statusHeap[res.ret] = res.arg)
         /\ res.arg \notin UserStatusEnum \cup {Undefined} =>
              (~ res.ok /\ res.err = "Invalid initial status")
    /\ \A i \in DOMAIN statusHeap : statusHeap[i] \in UserStatusEnum

\* C6: new UserRole() succeeds and yields USER, and new UserRole(USER) and
\* new UserRole(ADMIN) succeed and yield the given role.
C6_RoleConstructorAccepts ==
    (/\ res.op = "new UserRole"
     /\ res.arg \in UserRoleEnum \cup {Undefined})
    => /\ res.ok
       /\ res.ret \in DOMAIN roleHeap
       /\ roleHeap[res.ret] = (IF res.arg = Undefined THEN "USER" ELSE res.arg)

\* C7: new UserRole(v) for any v that is no member of {USER, ADMIN} fails
\* with an 'Invalid initial role' error, so no UserRole holds a non-member.
C7_RoleConstructorRejects ==
    /\ (/\ res.op = "new UserRole"
        /\ res.arg \notin UserRoleEnum \cup {Undefined})
       => (~ res.ok /\ res.err = "Invalid initial role")
    /\ \A i \in DOMAIN roleHeap : roleHeap[i] \in UserRoleEnum

\* C8: for UserRole both USER -> ADMIN and ADMIN -> USER are legal:
\* canTransitionTo returns true in both directions, and transitionTo returns
\* a new value holding the target role while the original keeps its role.
C8_RoleBothDirections ==
    /\ (/\ res.op = "UserRole.canTransitionTo"
        /\ res.selfState \in UserRoleEnum
        /\ res.arg \in RoleTable(res.selfState))
       => (res.ok /\ res.bool)
    /\ (/\ res.op = "UserRole.transitionTo"
        /\ res.selfState \in UserRoleEnum
        /\ res.arg \in RoleTable(res.selfState))
       => /\ res.ok
          /\ res.ret \in DOMAIN roleHeap
          /\ res.self \in DOMAIN roleHeap
          /\ res.ret /= res.self
          /\ roleHeap[res.ret] = res.arg
          /\ roleHeap[res.self] = res.selfState

\* C9: after any sequence of operations on a User (construction, setStatus,
\* readFrom) its status is one of the four members; every change of its
\* status from s to t /= s is an edge of the Status table; and a setStatus(t)
\* with t /= s that is no such edge fails and leaves the status unchanged.
C9_UserStatusClosed ==
    /\ [](\A i \in DOMAIN user : user[i].status \in UserStatusEnum)
    /\ [][(/\ user /= <<>>
           /\ user' /= <<>>
           /\ res'.op /= "new User"
           /\ user'[1].status /= user[1].status)
          => user'[1].status \in StatusTable(user[1].status)]_vars
    /\ []((/\ res.op = "User.setStatus"
           /\ res.arg /= res.selfState
           /\ res.arg \notin StatusTable(res.selfState))
          => (~ res.ok /\ user[1].status = res.selfState))

\* A User populated by readFrom from a confirmed row refuses setStatus("removed")
C9_Witness ==
    /\ res.op = "User.setStatus"
    /\ res.selfState = "confirmed"
    /\ res.arg = "removed"
    /\ ~ res.ok
    /\ user[1].status = "confirmed"
    /\ user[1].name = "admin"

\* C10: the role held by a User in memory and the userRole stored for a user
\* are always USER or ADMIN, whatever User.setRole, User.readFrom and the
\* /user/role update have done.
C10_RoleClosed ==
    /\ \A i \in DOMAIN user : user[i].role \in UserRoleEnum
    /\ \A i \in DOMAIN usersTable : usersTable[i].userRole \in UserRoleEnum

----------------------------------------------------------------------------
(* Claims C11 - C20 *)

\* C11: over any sequence of the operations that write a user's stored
\* status, every change of a stored status is an edge of the Status table;
\* in particular a stored status that is removed stays removed.
C11_StoredStatusFollowsTable ==
    [][\A i \in DOMAIN usersTable \cap DOMAIN usersTable' :
          usersTable'[i].status /= usersTable[i].status
          => usersTable'[i].status \in StatusTable(usersTable[i].status)]_vars

\* The fields of a User that may be null, and the field each is emitted as
NullableFields ==
    {"name", "githubUsername", "email", "password", "resetPasswordToken",
     "resetPasswordExpire", "confirmEmailToken", "confirmEmailExpire"}

\* C12: for every legally constructed User e, emitting e with writeTo and
\* populating a freshly created User from the emitted fields with readFrom
\* succeeds and yields a User equal to e in every field; a null field is
\* emitted as null and populated as null, a non-null one as non-null.
C12_RoundTrip ==
    res.op = "User.writeTo;readFrom"
    => /\ res.ok
       /\ user[1] = res.arg
       /\ \A f \in NullableFields :
            /\ (res.arg[f] = Null) <=> (User_writeTo(res.arg)[f] = Null)
            /\ (res.arg[f] = Null) <=> (user[1][f] = Null)
       /\ \A f \in NullableFields : User_writeTo(res.arg)[f] \notin {"", "0"}

\* A suspended User with a null name and a non-null e-mail has gone round
C12_Witness ==
    /\ res.op = "User.writeTo;readFrom"
    /\ res.ok
    /\ res.arg.status = "suspended"
    /\ res.arg.name = Null
    /\ res.arg.email /= Null
    /\ user[1].status = "suspended"
    /\ user[1].id = res.arg.id

\* The sentences about schedules speak of the dates a call was given.
AllWithin(g) ==
    \A i \in DOMAIN g.dates : g.startDate <= g.dates[i] /\ g.dates[i] <= g.endDate
PairwiseDistinct(ds) == \A i, j \in DOMAIN ds : i /= j => ds[i] /= ds[j]
StoredDates(id) == {r.submissionDate : r \in {q \in submissions : q.scheduleId = id}}

\* C13 as stated: writeRoot of a schedule fails whenever one of its
\* submission dates lies before startDate or after endDate, and succeeds
\* when every submission date lies within [startDate, endDate].
C13_WindowDecidesWriteRoot ==
    res.op = "writeRoot"
    => /\ ~AllWithin(res.arg) => ~res.ok
       /\ AllWithin(res.arg) => res.ok

\* C13 amended: writeRoot of a schedule fails whenever one of its submission
\* dates lies before startDate or after endDate, and succeeds when every
\* submission date lies within [startDate, endDate], both ends included,
\* and no date occurs twice.
C13_WindowAndDistinctDecideWriteRoot ==
    res.op = "writeRoot"
    => /\ ~AllWithin(res.arg) => ~res.ok /\ res.err = "ConstraintViolation"
       /\ AllWithin(res.arg) /\ PairwiseDistinct(res.arg.dates) => res.ok

\* A schedule whose two submission dates are its startDate and its endDate
\* has been written.
C13_Witness ==
    /\ res.op = "writeRoot"
    /\ res.ok
    /\ res.arg.startDate < res.arg.endDate
    /\ res.arg.dates = <<res.arg.endDate, res.arg.startDate>>
    /\ StoredDates(res.arg.id) = {res.arg.startDate, res.arg.endDate}

\* C14: in every reachable state every stored submission row has a
\* submissionDate within [startDate, endDate] of the schedule its scheduleId
\* names, whatever writes came before: writeRoot and saveSchedule with a new
\* window, direct inserts and direct updates of submission rows.
C14_StoredDatesWithinWindow ==
    \A r \in submissions : \A s \in schedules :
        s.id = r.scheduleId
        => s.startDate <= r.submissionDate /\ r.submissionDate <= s.endDate

\* A direct update has just moved a submission row of a stored schedule whose
\* window holds more than one date, while another submission row is stored.
C14_Witness ==
    /\ res.op = "UPDATE submissions"
    /\ res.ok
    /\ \E r \in submissions : \E s \in schedules :
          /\ r.id = res.arg.id
          /\ r.submissionDate = res.arg.submissionDate
          /\ s.id = r.scheduleId
          /\ s.startDate < s.endDate
    /\ \E r \in submissions : r.id /= res.arg.id

\* C15: in every reachable state no two submission rows of one schedule
\* hold the same date, and a writeRoot of a schedule that holds the same
\* submission date twice in memory fails.
C15_StoredDatesDistinct ==
    /\ \A r \in submissions : \A q \in submissions :
          r.id /= q.id /\ r.scheduleId = q.scheduleId
          => r.submissionDate /= q.submissionDate
    /\ res.op = "writeRoot" /\ ~PairwiseDistinct(res.arg.dates) => ~res.ok

\* A schedule holding one date twice, inside its window, has been rejected
\* while the schedule had a row and a submission stored.
C15_Witness ==
    /\ res.op = "writeRoot"
    /\ ~res.ok
    /\ AllWithin(res.arg)
    /\ ~PairwiseDistinct(res.arg.dates)
    /\ StoredDates(res.arg.id) /= {}

\* C16: when saveSchedule or writeRoot fails, storage is as it was before
\* the call: the same schedule rows and the same submission rows.
C16_FailedSaveLeavesStorage ==
    [][res'.op \in {"saveSchedule", "writeRoot"} /\ ~res'.ok
       => schedules' = schedules /\ submissions' = submissions]_vars

\* C17: after a successful saveSchedule or writeRoot of a schedule, the
\* submission rows stored for the schedule hold exactly the given dates,
\* each once, and the one stored schedule row holds the given startDate and
\* endDate.
C17_StoredIsGiven ==
    res.op \in {"saveSchedule", "writeRoot"} /\ res.ok
    => /\ StoredDates(res.arg.id) = {res.arg.dates[i] : i \in DOMAIN res.arg.dates}
       /\ Cardinality({r \in submissions : r.scheduleId = res.arg.id}) = Len(res.arg.dates)
       /\ {s \in schedules : s.id = res.arg.id}
            = {[id |-> res.arg.id, startDate |-> res.arg.startDate,
                endDate |-> res.arg.endDate]}

\* saveSchedule has stored one date for a schedule in a window of more than
\* one date, after two submission identities had been used for that store:
\* the only submission row left is the new one.
C17_Witness ==
    /\ res.op = "saveSchedule"
    /\ res.ok
    /\ res.arg.startDate < res.arg.endDate
    /\ Len(res.arg.dates) = 1
    /\ submissions = {[id |-> 3, scheduleId |-> res.arg.id,
                       submissionDate |-> res.arg.dates[1]]}

\* C18: a successful writeRoot of a schedule whose id has a stored row leaves
\* the number of schedule rows as it was, one whose id has none adds exactly
\* one row, and either way a lookup by the id then returns the schedule with
\* the written field values and children.
C18_WriteRootUpdatesInPlace ==
    [][res'.op = "writeRoot" /\ res'.ok
       => LET o == res'.ret[1]
              found == ObjectHandler_getCourseSchedule(schedules', submissions', o.id)
          IN  /\ Cardinality(schedules')
                   = IF \E s \in schedules : s.id = o.id
                     THEN Cardinality(schedules)
                     ELSE Cardinality(schedules) + 1
              /\ found /= <<>>
              /\ found[1].startDate = o.startDate
              /\ found[1].endDate = o.endDate
              /\ {found[1].submissionDates[i] : i \in DOMAIN found[1].submissionDates}
                   = {o.submissionDates[i] : i \in DOMAIN o.submissionDates}]_vars

\* A stored schedule has been read, changed and written again: its window
\* is [2, 2], its child is on day 2, and there is still the one schedule row.
C18_Witness ==
    /\ res.op = "writeRoot"
    /\ res.selfState = "stored"
    /\ res.ok
    /\ emptyRows = NoEmptyRows
    /\ schedules = {[id |-> 1, startDate |-> 2, endDate |-> 2]}
    /\ submissions = {[id |-> 1, scheduleId |-> 1, submissionDate |-> 2]}

SameEntity(a, b) ==
    /\ a.id = b.id
    /\ a.startDate = b.startDate
    /\ a.endDate = b.endDate
    /\ {a.submissionDates[i] : i \in DOMAIN a.submissionDates}
         = {b.submissionDates[i] : i \in DOMAIN b.submissionDates}

\* The step repeats the write before it: writeRoot of the entity just
\* written, or saveSchedule with the arguments just saved.
RepeatsWriteRoot ==
    /\ res.op = "writeRoot" /\ res.ok
    /\ res'.op = "writeRoot"
    /\ SameEntity(res.ret[1], res'.ret[1])
RepeatsSaveSchedule ==
    /\ res.op = "saveSchedule" /\ res.ok
    /\ res'.op = "saveSchedule"
    /\ res'.arg = res.arg

\* C20: the same write performed a second time succeeds and leaves
\* the schedule rows and the submission rows exactly as the first left them.
C20_SecondWriteChangesNothing ==
    [][RepeatsWriteRoot \/ RepeatsSaveSchedule
       => res'.ok /\ schedules' = schedules /\ submissions' = submissions]_vars

\* writeRoot has written, for the second time at least, the schedule that
\* was read back from storage with its two submission dates.
C20_Witness ==
    /\ res.op = "writeRoot"
    /\ res.selfState = "stored"
    /\ res.ok
    /\ Len(res.arg.dates) = 2
    /\ {r \in submissions : r.scheduleId = res.arg.id}
         = {[id |-> res.ret[1].submissionDates[i].id, scheduleId |-> res.arg.id,
             submissionDate |-> res.arg.dates[i]] : i \in 1..2}

----------------------------------------------------------------------------
(* Identity *)

\* C21: the create calls of the saveSchedule calls in flight together have
\* returned entities with pairwise distinct ids, per kind: no two
\* SubmissionDate entities and no two CourseSchedule entities that the calls
\* created carry the same id.
C21_CreatedIdsDistinct ==
    \A p \in DOMAIN calls, q \in DOMAIN calls :
        /\ \A i \in DOMAIN calls[p].objects, j \in DOMAIN calls[q].objects :
              (p /= q \/ i /= j) => calls[p].objects[i].id /= calls[q].objects[j].id
        /\ p /= q /\ calls[p].created /= NoRef => calls[p].created /= calls[q].created

\* C22: the id the factory gave an entity stays its id: the schedule that a
\* saveSchedule call created through the factory carries, from then on, the
\* id the factory gave it.
C22_IdNeverChanges ==
    \A p \in DOMAIN calls : calls[p].created /= NoRef => calls[p].id = calls[p].created

\* C37: when saveSchedule(courseId, ...) has succeeded, the schedules table
\* holds a row with id courseId, and the rows the call has put into the
\* table are that row and no row under another id.
C37_OneScheduleRowPerSave ==
    \A p \in DOMAIN calls :
        LET c == calls[p]
            inserted == IF c.created = NoRef THEN {} ELSE {c.created}
        IN  (c.op = "saveSchedule" /\ c.pc = "done" /\ c.ok)
            => /\ \E r \in schedules : r.id = c.courseId
               /\ inserted \cup {c.courseId} = {c.courseId}

\* C23: an id that an entity of a kind has been given is not given to an
\* entity of the kind created later: the SubmissionDate entities a
\* saveSchedule call creates get none of the ids the submission rows had
\* when the call began.
C23_IdNeverReused ==
    [][res'.op = "saveSchedule" /\ res'.ret /= <<>>
       => ObjectIds(res'.ret[1].submissionDates)
            \cap RowIds(submissions, emptyRows.SubmissionDate) = {}]_vars

----------------------------------------------------------------------------
(* Terms, courses and projects: one call at a time *)

Came(p, op) == p \in DOMAIN calls /\ calls[p].op = op /\ calls[p].pc = "done"
Failed(c, err) == ~c.ok /\ c.err = err
Gave(c, ret) == c.ok /\ c.ret = ret

\* C24: deleteTerm of a term with a course and deleteCourse of a course with
\* a project fail with an error and leave storage as it was; without such
\* children the deletion returns true and removes the row (deleteCourse
\* removes the schedule of the course with it) and nothing else; for an id
\* with no row it returns false and changes nothing.
C24_DeletionGuard ==
    /\ Came(1, "deleteTerm") =>
          LET c == calls[1]
              row == {t \in c.before.terms : t.id = c.a}
          IN  IF row = {} THEN Gave(c, <<FALSE>>) /\ Stored = c.before
              ELSE IF \E k \in c.before.courses : k.termId = c.a
              THEN Failed(c, "IllegalArgumentException") /\ Stored = c.before
              ELSE /\ Gave(c, <<TRUE>>)
                   /\ Stored = [c.before EXCEPT !.terms = @ \ row]
    /\ Came(1, "deleteCourse") =>
          LET c == calls[1]
              row == {k \in c.before.courses : k.id = c.a}
          IN  IF row = {} THEN Gave(c, <<FALSE>>) /\ Stored = c.before
              ELSE IF \E r \in c.before.projects : r.courseId = c.a
              THEN Failed(c, "IllegalArgumentException") /\ Stored = c.before
              ELSE /\ Gave(c, <<TRUE>>)
                   /\ Stored = [c.before EXCEPT
                                  !.courses = @ \ row,
                                  !.schedules = {r \in @ : r.id /= c.a},
                                  !.submissions = {r \in @ : r.scheduleId /= c.a}]

\* deleteTerm has returned true for the only term there has been, after the
\* course that was stored in it has been deleted.
C24_Witness ==
    /\ Came(1, "deleteTerm")
    /\ calls[1].ret = <<TRUE>>
    /\ sqlite_sequence.terms = 1
    /\ sqlite_sequence.courses = 1
    /\ terms = {}
    /\ courses = {}

\* C26: a lookup by an id that has no row gives null and does not throw:
\* getSchedule (and the getCourseSchedule it calls) returns null, updateProject
\* returns null and deleteProject returns false, and the two write nothing.
C26_MissingRowGivesNull ==
    /\ [][res' /= res /\ res'.op = "getSchedule"
          => /\ res'.ok
             /\ (\A r \in schedules : r.id /= res'.arg) => res'.ret = <<>>]_vars
    /\ [](Came(1, "updateProject") /\ (\A r \in calls[1].before.projects : r.id /= calls[1].a)
          => Gave(calls[1], <<>>) /\ Stored = calls[1].before)
    /\ [](Came(1, "deleteProject") /\ (\A r \in calls[1].before.projects : r.id /= calls[1].a)
          => Gave(calls[1], <<FALSE>>) /\ Stored = calls[1].before)

\* getSchedule has returned null for course 2 while the schedule of course 1
\* is stored.
C26_Witness ==
    /\ res.op = "getSchedule"
    /\ res.arg = 2
    /\ res.ret = <<>>
    /\ \E r \in schedules : r.id = 1

\* C27: createTerm(name) and createCourse(name, termId) for a stored term
\* return the stored row of that name (same id) and add no row when there is
\* one, and add exactly one row, which they return, when there is none; after
\* either the name is stored once.  createCourse for a termId that names no
\* term fails and adds no row.
C27_GetOrCreate ==
    /\ Came(1, "createTerm") =>
          LET c == calls[1]
              existing == {t \in c.before.terms : t.termName = c.a}
          IN  /\ c.ok
              /\ Len(c.ret) = 1
              /\ c.ret[1].termName = c.a
              /\ {t \in terms : t.termName = c.a} = {c.ret[1]}
              /\ IF existing /= {}
                 THEN c.ret[1] \in existing /\ Stored = c.before
                 ELSE /\ \A t \in c.before.terms : t.id /= c.ret[1].id
                      /\ Stored = [c.before EXCEPT !.terms = @ \cup {c.ret[1]}]
    /\ Came(1, "createCourse") =>
          LET c == calls[1]
              existing == {k \in c.before.courses : k.courseName = c.a}
          IN  IF \A t \in c.before.terms : t.id /= c.b
              THEN ~c.ok /\ Stored = c.before
              ELSE /\ c.ok
                   /\ Len(c.ret) = 1
                   /\ c.ret[1].courseName = c.a
                   /\ {k \in courses : k.courseName = c.a} = {c.ret[1]}
                   /\ IF existing /= {}
                      THEN c.ret[1] \in existing /\ Stored = c.before
                      ELSE /\ \A k \in c.before.courses : k.id /= c.ret[1].id
                           /\ c.ret[1].termId = c.b
                           /\ Stored = [c.before EXCEPT !.courses = @ \cup {c.ret[1]}]

\* createCourse has returned the course that was already stored under the
\* name.
C27_Witness ==
    /\ Came(1, "createCourse")
    /\ calls[1].ok
    /\ calls[1].ret /= <<>>
    /\ calls[1].ret[1] \in calls[1].before.courses

----------------------------------------------------------------------------
(* Terms, courses and projects: overlapping calls *)

\* C25: whenever every call that was made has come back, every stored
\* course's termId names a stored term and every stored project's courseId
\* names a stored course.
C25_ReferencesResolve ==
    (\A p \in DOMAIN calls : calls[p].pc = "done")
    => /\ \A k \in courses : \E t \in terms : t.id = k.termId
       /\ \A r \in projects : \E k \in courses : k.id = r.courseId

\* C32: when two overlapping createCourse calls with the same course name,
\* new when each was called, and a stored term have both come back, both
\* have returned the same course with that name, neither has failed, and
\* exactly one course row has the name.
C32_ConcurrentCreateCourse ==
    \A p, q \in DOMAIN calls :
        (/\ p /= q
         /\ Came(p, "createCourse")
         /\ Came(q, "createCourse")
         /\ calls[p].a = calls[q].a
         /\ \A c \in {calls[p], calls[q]} :
               /\ \E t \in c.before.terms : t.id = c.b
               /\ \A k \in c.before.courses : k.courseName /= c.a)
        => /\ calls[p].ok
           /\ calls[q].ok
           /\ calls[p].ret = calls[q].ret
           /\ \E k \in courses : calls[p].ret = <<k>> /\ k.courseName = calls[p].a
           /\ Cardinality({k \in courses : k.courseName = calls[p].a}) = 1

----------------------------------------------------------------------------
(* Seeding and the middlewares *)

\* The row of the default administrator, whatever id it was given
IsDefaultAdmin(row) == [row EXCEPT !.id = AdminRow.id] = AdminRow

\* C28: initializeDB creates the default administrator (named "admin", the
\* configured email, status confirmed, role ADMIN) exactly when createAdmin
\* is true and the users table holds no user; in every other case,
\* a second run included, it leaves the users table as it was.
C28_SeedsAdminOnce ==
    [][(res'.op = "initializeDB" /\ (res' /= res \/ usersTable' /= usersTable)) =>
          IF res'.arg /\ DOMAIN usersTable = {}
          THEN /\ Cardinality(DOMAIN usersTable') = 1
               /\ \A i \in DOMAIN usersTable' : IsDefaultAdmin(usersTable'[i])
               /\ res'.bool
          ELSE usersTable' = usersTable /\ ~res'.bool]_vars

\* initializeDB has run with createAdmin on a table that held the
\* administrator already, and the administrator is still the only user
C28_Witness ==
    /\ res.op = "initializeDB"
    /\ res.arg
    /\ ~res.bool
    /\ Cardinality(DOMAIN usersTable) = 1
    /\ \A i \in DOMAIN usersTable : IsDefaultAdmin(usersTable[i])

\* The token verifies: jwt.verify returned a payload
Verifies(token) == token /= <<>> /\ token /= <<0>>

\* The stored user the token's payload names, as a set of ids
TokenUser(token) == IF Verifies(token) THEN {token[1]} \cap DOMAIN usersTable ELSE {}

\* The stored users with the email
NamedByEmail(email) == {i \in DOMAIN usersTable : usersTable[i].email = email}

\* C29: checkOwnership calls next() only when the token verifies, the
\* token's user and the user with req.body.userEmail are both stored, and
\* the token's user is an ADMIN or is that very user; whenever it does not
\* call next() it has sent one response, a 401, a 404 or a 403.
C29_OwnershipOnlyForOwnerOrAdmin ==
    res.op = "checkOwnership" =>
        LET t == TokenUser(res.arg.token)
            p == NamedByEmail(res.arg.userEmail)
        IN  /\ res.bool =>
                /\ res.http = 0
                /\ t /= {}
                /\ p /= {}
                /\ \A i \in t : usersTable[i].userRole = "ADMIN" \/ i \in p
            /\ ~ res.bool => res.http \in {401, 404, 403}

\* C30: checkAdmin calls next(), and sends nothing, exactly when the token
\* verifies and names a stored user whose role is ADMIN; otherwise it sends
\* one response: 401 when the token is missing or does not verify, 404 when
\* it names no stored user, 403 when the user is no ADMIN.
C30_AdminOnly ==
    res.op = "checkAdmin" =>
        LET t == TokenUser(res.arg)
            admin == \E i \in t : usersTable[i].userRole = "ADMIN"
        IN  /\ res.bool <=> admin
            /\ res.http = IF ~ Verifies(res.arg) THEN 401
                          ELSE IF t = {} THEN 404
                          ELSE IF ~ admin THEN 403
                          ELSE 0

----------------------------------------------------------------------------
(* Projects and their members *)

\* C31: when deleteProject(p) has returned true, no projects row with id p
\* and no user_projects row with projectId p is stored, and every other
\* projects and user_projects row and every course and user row is as it was
\* before the call; when no project p was stored the call has returned false
\* and storage is as it was.
C31_DeleteProjectFrame ==
    Came(1, "deleteProject") =>
        LET c == calls[1]
        IN  /\ c.ok
            /\ IF \E r \in c.before.projects : r.id = c.a
               THEN /\ c.ret = <<TRUE>>
                    /\ projects = {r \in c.before.projects : r.id /= c.a}
                    /\ user_projects =
                          {r \in c.before.user_projects : r.projectId /= c.a}
                    /\ Stored = [c.before EXCEPT !.projects = projects,
                                                 !.user_projects = user_projects]
               ELSE c.ret = <<FALSE>> /\ Stored = c.before

\* deleteProject has returned true for a project that had a member, while
\* another project with a member is stored
C31_Witness ==
    /\ Came(1, "deleteProject")
    /\ calls[1].ret = <<TRUE>>
    /\ \E r \in calls[1].before.user_projects : r.projectId = calls[1].a
    /\ \E r \in user_projects : \E q \in projects : q.id = r.projectId

\* C33: login answers 200 with a token only when a user with the email is
\* stored, the stored password matches the supplied one and the stored
\* status is confirmed; with a stored status of unconfirmed, suspended or
\* removed it issues no token.
C33_LoginOnlyConfirmed ==
    res.op = "login" =>
        /\ (res.http = 200 \/ res.bool) =>
              /\ res.http = 200
              /\ res.bool
              /\ \E i \in NamedByEmail(res.arg.email) :
                    /\ comparePassword(res.arg.password, usersTable[i].password)
                    /\ usersTable[i].status = "confirmed"
        /\ (\E i \in NamedByEmail(res.arg.email) :
               usersTable[i].status \in {"unconfirmed", "suspended", "removed"})
           => ~res.bool

\* A registered user, confirmed since, has logged in
C33_Witness ==
    /\ res.op = "login"
    /\ res.http = 200
    /\ \E i \in NamedByEmail(res.arg.email) :
          usersTable[i].userRole = "USER" /\ usersTable[i].confirmEmailToken /= Null

\* C34: when the register handler is through, the request has received one
\* response: 400 for invalid input, 201 when the user has been written, and
\* an error status when creating or writing the user failed.
C34_RegisterResponds ==
    res.op = "register" =>
        /\ res.http /= 0
        /\ res.ok => res.http \in {400, 201}
        /\ ~res.ok => res.http >= 400

----------------------------------------------------------------------------
(* Tokens *)

\* The stored users whose resetPasswordToken is the token
HoldersOf(token) ==
    {i \in DOMAIN usersTable : usersTable[i].resetPasswordToken = token}

\* A request of the handler op has been handled in this step
Handles(op) == res'.op = op /\ (res' /= res \/ usersTable' /= usersTable)

\* C35: resetPassword changes a stored password only when the token is the
\* stored resetPasswordToken of a user and its expiry is not in the past;
\* when it answers 200 that user's stored token and expiry are null; with a
\* token no user holds it is rejected and changes nothing; and once a
\* resetPassword with token T has answered 200, no user holds T again.
C35_ResetTokenSingleUse ==
    /\ [][Handles("resetPassword") =>
            LET T == res'.arg.token
                holders == IF T = Undefined THEN {} ELSE HoldersOf(T)
            IN  /\ (\E i \in DOMAIN usersTable :
                       usersTable'[i].password /= usersTable[i].password)
                   => \E i \in holders :
                         /\ usersTable[i].resetPasswordExpire /= Null
                         /\ Millis(usersTable[i].resetPasswordExpire) >= now
                /\ res'.http = 200 =>
                      /\ holders /= {}
                      /\ \A i \in holders :
                            /\ usersTable'[i].resetPasswordToken = Null
                            /\ usersTable'[i].resetPasswordExpire = Null
                /\ holders = {} => usersTable' = usersTable /\ res'.http /= 200]_vars
    /\ \A T \in BodyTokens \ {Undefined} :
          []((res.op = "resetPassword" /\ res.http = 200 /\ res.arg.token = T)
             => [](HoldersOf(T) = {}))

\* A password has been reset, and a later resetPassword with a token that
\* was issued has been rejected as unknown
C35_Witness ==
    /\ res.op = "resetPassword"
    /\ res.http = 401
    /\ res.arg.token \in {Token(n) : n \in 1..issued}
    /\ \A i \in DOMAIN usersTable : usersTable[i].confirmEmailToken /= res.arg.token
    /\ \E i \in DOMAIN usersTable : usersTable[i].password = "hash(Newpass123)"

\* C36: a confirmEmail or resetPassword request that answers with a status
\* other than 200 leaves the row of every user as it was.
C36_RejectedRequestChangesNothing ==
    [][(Handles("confirmEmail") \/ Handles("resetPassword")) /\ res'.http /= 200
       => usersTable' = usersTable]_vars

----------------------------------------------------------------------------
(* Chains of transitions *)

\* The states a successful transitionTo(t), t a member of the enumeration,
\* leads to from a state of S, none of them in the set avoid
Successors(S, avoid) ==
    {UserStatus_transitionTo(s, t).status :
        <<s, t>> \in {x \in S \X UserStatusEnum :
                         UserStatus_transitionTo(x[1], x[2]).ok}} \ avoid

\* The states a sequence of at most n successful transitionTo calls, each on
\* the result of the one before, leads to from a state of S
RECURSIVE Reach(_, _, _)
Reach(S, avoid, n) ==
    IF n = 0 THEN S ELSE Reach(S \cup Successors(S, avoid), avoid, n - 1)

\* C38: a successful transitionTo on a state other than unconfirmed does not
\* give unconfirmed, and on removed gives removed, so along a sequence of
\* successful calls, each on the result of the one before, unconfirmed is
\* not entered again and removed is not left; removed is reachable by such a
\* sequence from the state of every UserStatus, and from confirmed by no
\* sequence that does not pass through suspended.
C38_StatusChains ==
    /\ (/\ res.op = "UserStatus.transitionTo"
        /\ res.selfState \in UserStatusEnum
        /\ res.ok)
       => /\ res.selfState /= "unconfirmed" => statusHeap[res.ret] /= "unconfirmed"
          /\ res.selfState = "removed" => statusHeap[res.ret] = "removed"
    /\ \A i \in DOMAIN statusHeap :
          statusHeap[i] \in UserStatusEnum
          => /\ "removed" \in Reach({statusHeap[i]}, {}, Cardinality(UserStatusEnum))
             /\ "unconfirmed" \in Reach({statusHeap[i]}, {}, Cardinality(UserStatusEnum))
                   => statusHeap[i] = "unconfirmed"
    /\ "removed" \notin Reach({"confirmed"}, {"suspended"}, Cardinality(UserStatusEnum))

\* A sequence of calls has led from confirmed through suspended to removed
C38_Witness ==
    /\ statusHeap = <<"confirmed", "suspended", "removed">>
    /\ res.op = "UserStatus.transitionTo"
    /\ res.self = 2
    /\ res.ret = 3

\* C39: for every UserStatus state s and every member t of the enumeration,
\* s.transitionTo(t) succeeds exactly when t is s or s.canTransitionTo(t) is
\* true; and likewise for every UserRole state and member.
C39_TransitionToIffCanTransitionTo ==
    /\ (/\ res.op = "UserStatus.transitionTo"
        /\ res.selfState \in UserStatusEnum
        /\ res.arg \in UserStatusEnum)
       => (res.ok <=> \/ res.arg = res.selfState
                      \/ UserStatus_canTransitionTo(res.selfState, res.arg).bool)
    /\ (/\ res.op = "UserRole.transitionTo"
        /\ res.selfState \in UserRoleEnum
        /\ res.arg \in UserRoleEnum)
       => (res.ok <=> \/ res.arg = res.selfState
                      \/ UserRole_canTransitionTo(res.selfState, res.arg).bool)
====
